---- MODULE Spec2Model ----
(***************************************************************************)
(* Model of the pricing and rebalance analysis of kyberReserve             *)
(* (src/kyberReserve/analysis.py): the per-level imbalance spread          *)
(* (imbalanceCalculator), the price ladder of one side                     *)
(* (matrixSideCalculator) and the clamped rebalance price offset           *)
(* (Coin.rebalancePriceOffset).                                            *)
(*                                                                         *)
(* Numbers.  The code computes in Python floats.  The model computes in    *)
(* exact rationals [n, d] (lowest terms, d > 0), which is what the float   *)
(* operations compute up to rounding, with one exception that is modelled  *)
(* explicitly: the tie-break term levelSpread is a multiple of 1e-16, the  *)
(* same size as the spacing of doubles around the prices, so the sum       *)
(* pPrice + sideOffset + spread is rounded to the double grid (operator    *)
(* Fl).  levelSpread is kept as a count of 1e-16 steps.                    *)
(***************************************************************************)
EXTENDS Integers, Sequences, FiniteSets, TLC

\* ------------------------------------------------------------------ bounds

\* Largest number of entries of an amount or rate sequence of one side.
MaxLevels == 2

\* Largest number of samples of a backtest run.
MaxSamples == 3

\* ----------------------------------------------------- rational arithmetic

RECURSIVE GCD(_, _)
GCD(a, b) == IF b = 0 THEN a ELSE GCD(b, a % b)

IAbs(x) == IF x < 0 THEN -x ELSE x

\* The rational n/d in lowest terms with a positive denominator (d # 0).
Q(n, d) ==
    LET g == GCD(IAbs(n), IAbs(d))
        s == IF d < 0 THEN -1 ELSE 1
    IN  [n |-> (s * n) \div g, d |-> (s * d) \div g]

QInt(i) == [n |-> i, d |-> 1]
QZero == QInt(0)

QAdd(x, y) == Q(x.n * y.d + y.n * x.d, x.d * y.d)
QNeg(x) == [n |-> -x.n, d |-> x.d]
QSub(x, y) == QAdd(x, QNeg(y))
QMul(x, y) == Q(x.n * y.n, x.d * y.d)
\* x / y for y # 0; the callers raise ZeroDivisionError before a zero y.
QDiv(x, y) == Q(x.n * y.d, x.d * y.n)
QLe(x, y) == x.n * y.d <= y.n * x.d
QLt(x, y) == x.n * y.d < y.n * x.d
\* Python's abs, max(a, b) and min(a, b) on floats.
QAbs(x) == [n |-> IAbs(x.n), d |-> x.d]
QMax(x, y) == IF QLt(x, y) THEN y ELSE x
QMin(x, y) == IF QLt(y, x) THEN y ELSE x

RECURSIVE Pow(_, _)
Pow(b, e) == IF e = 0 THEN 1 ELSE b * Pow(b, e - 1)

\* -------------------------------------------------- rounding to the doubles

\* 1e-16 in units of 2^-53 (half the spacing of the doubles in [1, 2)):
\* 1e-16 * 2^53 = 0.90071992..., taken as EpsNum / EpsDen.
EpsNum == 9007
EpsDen == 10000

\* floor(log2(n/d)) for n, d > 0: the binade of a positive rational.
RECURSIVE Log2Floor(_, _)
Log2Floor(n, d) ==
    IF n >= 2 * d THEN Log2Floor(n, 2 * d) + 1
    ELSE IF n < d THEN Log2Floor(2 * n, d) - 1
    ELSE 0

Pow2Q(e) == IF e >= 0 THEN QInt(Pow(2, e)) ELSE Q(1, Pow(2, -e))

\* The integer nearest to a rational x >= 0 (no x of the model is a tie).
RoundNearest(x) == (2 * x.n + x.d) \div (2 * x.d)

\* The double nearest to m + b * 1e-16 for m > 0 on the double grid, as the
\* number of half-spacings (2^(e-53), e the binade of m) it lies from m.
\* Above m, and below an m that is no power of two, doubles are two
\* half-spacings apart; just below a power of two they are one apart.
FlPos(m, b) ==
    LET e    == Log2Floor(m.n, m.d)
        half == QDiv(Q(EpsNum, EpsDen), Pow2Q(e))
        mag  == QAbs(b)
    IN  IF b.n >= 0
        THEN 2 * RoundNearest(QDiv(QMul(mag, half), QInt(2)))
        ELSE IF m = Pow2Q(e)
             THEN -RoundNearest(QMul(mag, half))
             ELSE -2 * RoundNearest(QDiv(QMul(mag, half), QInt(2)))

\* The float sum m + b * 1e-16: [m, u], the double u half-spacings from m.
\* Exact when m is itself a double; for another m the double nearest to m
\* stands for m and u is right to within one spacing.
\* Around m = 0 doubles are far finer than 1e-16 and the sum is b * 1e-16
\* itself: u is then b, in units of 1e-16.
Fl(m, b) ==
    IF b.n = 0 THEN [m |-> m, u |-> QZero]
    ELSE IF m.n = 0 THEN [m |-> m, u |-> b]
    ELSE IF m.n > 0 THEN [m |-> m, u |-> QInt(FlPos(m, b))]
    ELSE [m |-> m, u |-> QInt(-FlPos(QNeg(m), QNeg(b)))]

\* Order of two float values [m, u]: by m, and by u when m is the same (a
\* difference of the main terms is many orders above the rounding term).
FLt(x, y) == QLt(x.m, y.m) \/ (x.m = y.m /\ QLt(x.u, y.u))

\* ------------------------------------------------------------------- state

VARIABLES
    \* arguments of matrixSideCalculator
    side,            \* Side.BID or Side.ASK
    pricing_debug,   \* buy_/sell_ amounts and rates (base units), volatility
    bal_dict,        \* [current, target]
    maxImbal,
    historyOffset,
    side_offset,     \* [bid, ask]
    pwi,             \* [qA, qB, qC, min_min]
    tokenDecimals,
    \* locals of matrixSideCalculator
    pc,              \* "call", "loop", "returned" or "raised"
    err,             \* the exception raised, "" when none
    minImb,          \* the running floor
    levelSpread,     \* in steps of 1e-16
    imbalance_spread,
    matrixPrice,
    calls,           \* per level, what imbalanceCalculator saw and returned
    \* Coin.rebalancePriceOffset: its receiver, arguments and result
    coin,
    maxRebalanceOffset,
    minRebalanceOffset,
    rpc,             \* "call", "returned" or "raised"
    rerr,
    offsetResult,
    \* AssetBalance.total, Coin.imbalance, Coin.imbalanceRatio on that coin
    queried,         \* the methods called so far
    totalResult,
    imbalanceResult,
    ratioResult,
    \* get_tokenPricing: its arguments, position and locals
    kr,              \* the client: [tokens, tokens_decimals, balances]
    asset,
    totalTarget,
    debugGiven,      \* pricing_debug is not None
    tpc,             \* "call", "sides", "returned" or "raised"
    terr,
    assetID,
    mtx,             \* side -> ladder
    dbug,            \* side -> trace
    cycle,           \* the caller's pricing cycle, 1 or 2
    prev,            \* what the cycle before returned
    \* testReserveRebalanceQuad: its arguments, position and locals
    reserveAmntSeed,
    resOffsetLow,
    resOffsetHigh,
    nOffsets,
    exchanges,
    samplerAsset,    \* the argument asset
    spc,             \* "call", "build", "ratios", "offsets", "returned", "raised"
    serr,
    resvBalOffsets,
    usdtCoinVars,
    imbalRatios,
    res,
    \* ReserveClient.request: its arguments, position and outcome
    request_args,    \* [endpoint, params, data, json, has0xKey]
    qpc,             \* "call", "sent", "returned" or "raised"
    resp,            \* what _request ended with
    request_result,  \* the dict request returns
    qerr,
    \* load_endpoints: the parsed JSON, the loop position and the mapping
    endpoints_data,  \* list of [base, url, endpoints]
    endpoints,       \* ep_key -> EndpointItem
    epc,             \* "loop" or "returned"
    ep_group,        \* index of i in data
    ep_entry,        \* index of j in i["endpoints"]
    \* get_all_related_addresses: its arguments, locals and lookups
    bfs_args,        \* [starting_addresses, max_step_addresses,
                     \*  max_lookup_addresses, levels, related]
    visited_addresses,
    queue,           \* the deque, bounded by max_lookup_addresses
    levels,          \* the local count of levels left
    looked_up,       \* the addresses passed to get_related_addresses
    bpc,             \* "loop" or "returned"
    \* a RequestItem, the clock it reads and the calls made on it
    item,            \* [custom_headers, headers, signed, body, key_id, secret]
    clock,           \* ts_millis()
    item_log,        \* the calls so far: "sign", "sign raised" or "reset"
    \* a ContextSignedRequest and the async_mtm calls running on it
    host,            \* self.host
    mtm_calls,       \* caller -> [pc, temp_host, pending, responses]
    \* _requestGET_retry: its arguments, locals and the calls it made
    retries,
    results,         \* the caller's list
    results_before,  \* the list as it was at the call
    attempt_count,   \* the local x
    attempts,        \* what each requestGET call ended with
    gpc,             \* "loop" or "returned"
    \* get_activities / get_0x_quote_logs: arguments, locals and requests
    window_args,     \* [fn, from_time, to_time]
    from_time,       \* the local from_time, advanced by the loop
    window_requests, \* the params of each _requestGET_retry call
    list_activities, \* the list the replies are added to
    wpc              \* "loop" or "returned"

ladderVars == <<side, pricing_debug, bal_dict, maxImbal, historyOffset,
                side_offset, pwi, tokenDecimals, pc, err, minImb, levelSpread,
                imbalance_spread, matrixPrice, calls>>
rebalanceVars == <<coin, maxRebalanceOffset, minRebalanceOffset, rpc, rerr,
                   offsetResult, queried, totalResult, imbalanceResult,
                   ratioResult>>
pricingVars == <<kr, asset, totalTarget, debugGiven, tpc, terr, assetID, mtx,
                 dbug, cycle, prev>>
samplerVars == <<reserveAmntSeed, resOffsetLow, resOffsetHigh, nOffsets,
                 exchanges, samplerAsset, spc, serr, resvBalOffsets,
                 usdtCoinVars, imbalRatios, res>>
requestVars == <<request_args, qpc, resp, request_result, qerr>>
endpointVars == <<endpoints_data, endpoints, epc, ep_group, ep_entry>>
bfsVars == <<bfs_args, visited_addresses, queue, levels, looked_up, bpc>>
itemVars == <<item, clock, item_log>>
mtmVars == <<host, mtm_calls>>
retryVars == <<retries, results, results_before, attempt_count, attempts, gpc>>
windowVars == <<window_args, from_time, window_requests, list_activities, wpc>>

\* What each operation outside the pricing analysis leaves alone.
analysisVars == <<ladderVars, rebalanceVars, pricingVars, samplerVars>>
requestFrame == <<analysisVars, endpointVars, bfsVars, itemVars, mtmVars, retryVars, windowVars>>
endpointFrame == <<analysisVars, requestVars, bfsVars, itemVars, mtmVars, retryVars, windowVars>>
bfsFrame == <<analysisVars, requestVars, endpointVars, itemVars, mtmVars, retryVars, windowVars>>
itemFrame == <<analysisVars, requestVars, endpointVars, bfsVars, mtmVars, retryVars, windowVars>>
mtmFrame == <<analysisVars, requestVars, endpointVars, bfsVars, itemVars, retryVars, windowVars>>
retryFrame == <<analysisVars, requestVars, endpointVars, bfsVars, itemVars, mtmVars, windowVars>>
windowFrame == <<analysisVars, requestVars, endpointVars, bfsVars, itemVars, mtmVars, retryVars>>
toolVars == <<requestVars, endpointVars, bfsVars, itemVars, mtmVars, retryVars, windowVars>>
vars == <<ladderVars, rebalanceVars, pricingVars, samplerVars, toolVars>>

\* ------------------------------------------------------- pricing analysis

Sides == {"BID", "ASK"}

\* PWI.calculate with the linear term subtracted.
PWI_calculate_MinusLinear(p, x) ==
    QMul(QAdd(QSub(QMul(QMul(p.qA, x), x), QMul(p.qB, x)), p.qC), p.min_min)

\* PWI.calculate
PWI_calculate(p, x) ==
    QMul(QAdd(QAdd(QMul(QMul(p.qA, x), x), QMul(p.qB, x)), p.qC), p.min_min)

\* getMultiplier with the two signs exchanged.
getMultiplier_Swapped(isBid) == IF isBid THEN QInt(1) ELSE QInt(-1)

getMultiplier(isBid) == IF isBid THEN QInt(-1) ELSE QInt(1)

\* imbalanceCalculator with the comparison imbal < min_Imb: a level that ties
\* with the floor gets a spread.
imbalanceCalculator_StrictLess(lvl_size, lvl_p, bal, maxImb, floor, multiplier, curve) ==
    LET virtual == QMax(QSub(bal.current,
                             QMul(multiplier, QDiv(lvl_size, lvl_p))), QZero)
        imbal0  == QDiv(QAbs(QSub(virtual, bal.target)), bal.target)
        imbal   == QMin(imbal0, maxImb)
    IN  IF QLt(imbal, floor)
        THEN [min_Imb |-> imbal, imbSpread |-> QZero,
              virtual |-> virtual, imbal |-> imbal, pwiArgs |-> <<>>,
              bal |-> bal]
        ELSE [min_Imb |-> floor, imbSpread |-> PWI_calculate(curve, imbal),
              virtual |-> virtual, imbal |-> imbal, pwiArgs |-> <<imbal>>,
              bal |-> bal]

\* imbalanceCalculator without the line imbal = min(imbal, maxImbal).
imbalanceCalculator_NoClamp(lvl_size, lvl_p, bal, maxImb, floor, multiplier, curve) ==
    LET virtual == QMax(QSub(bal.current,
                             QMul(multiplier, QDiv(lvl_size, lvl_p))), QZero)
        imbal   == QDiv(QAbs(QSub(virtual, bal.target)), bal.target)
    IN  IF QLe(imbal, floor)
        THEN [min_Imb |-> imbal, imbSpread |-> QZero,
              virtual |-> virtual, imbal |-> imbal, pwiArgs |-> <<>>,
              bal |-> bal]
        ELSE [min_Imb |-> floor, imbSpread |-> PWI_calculate(curve, imbal),
              virtual |-> virtual, imbal |-> imbal, pwiArgs |-> <<imbal>>,
              bal |-> bal]

\* imbalanceCalculator with min_Imb = imbal on both branches: the floor
\* follows every level.
imbalanceCalculator_FloorAlways(lvl_size, lvl_p, bal, maxImb, floor, multiplier, curve) ==
    LET virtual == QMax(QSub(bal.current,
                             QMul(multiplier, QDiv(lvl_size, lvl_p))), QZero)
        imbal0  == QDiv(QAbs(QSub(virtual, bal.target)), bal.target)
        imbal   == QMin(imbal0, maxImb)
    IN  IF QLe(imbal, floor)
        THEN [min_Imb |-> imbal, imbSpread |-> QZero,
              virtual |-> virtual, imbal |-> imbal, pwiArgs |-> <<>>,
              bal |-> bal]
        ELSE [min_Imb |-> imbal, imbSpread |-> PWI_calculate(curve, imbal),
              virtual |-> virtual, imbal |-> imbal, pwiArgs |-> <<imbal>>,
              bal |-> bal]

\* imbalanceCalculator that writes the virtual balance back into the dict it
\* was given, so that the next level is priced on top of this one.
imbalanceCalculator_WritesBalance(lvl_size, lvl_p, bal, maxImb, floor, multiplier, curve) ==
    LET virtual == QMax(QSub(bal.current,
                             QMul(multiplier, QDiv(lvl_size, lvl_p))), QZero)
        imbal0  == QDiv(QAbs(QSub(virtual, bal.target)), bal.target)
        imbal   == QMin(imbal0, maxImb)
        written == [bal EXCEPT !.current = virtual]
    IN  IF QLe(imbal, floor)
        THEN [min_Imb |-> imbal, imbSpread |-> QZero,
              virtual |-> virtual, imbal |-> imbal, pwiArgs |-> <<>>,
              bal |-> written]
        ELSE [min_Imb |-> floor, imbSpread |-> PWI_calculate(curve, imbal),
              virtual |-> virtual, imbal |-> imbal, pwiArgs |-> <<imbal>>,
              bal |-> written]

\* imbalanceCalculator, for lvl_p # 0 and a target # 0.  Beside the returned
\* pair (min_Imb, imbSpread) the record carries the locals virtual and imbal,
\* the arguments PWI.calculate was called with, and bal: the dict the caller
\* passed by reference as it is after the call (the function only reads it).
imbalanceCalculator(lvl_size, lvl_p, bal, maxImb, floor, multiplier, curve) ==
    LET virtual == QMax(QSub(bal.current,
                             QMul(multiplier, QDiv(lvl_size, lvl_p))), QZero)
        imbal0  == QDiv(QAbs(QSub(virtual, bal.target)), bal.target)
        imbal   == QMin(imbal0, maxImb)
    IN  IF QLe(imbal, floor)
        THEN [min_Imb |-> imbal, imbSpread |-> QZero,
              virtual |-> virtual, imbal |-> imbal, pwiArgs |-> <<>>,
              bal |-> bal]
        ELSE [min_Imb |-> floor, imbSpread |-> PWI_calculate(curve, imbal),
              virtual |-> virtual, imbal |-> imbal, pwiArgs |-> <<imbal>>,
              bal |-> bal]

\* Lines 310-315 of matrixSideCalculator: what it reads from its arguments.
isBid == side = "BID"
amts == IF isBid THEN pricing_debug.buy_amounts ELSE pricing_debug.sell_amounts
rates == IF isBid THEN pricing_debug.buy_rates ELSE pricing_debug.sell_rates
offset == IF isBid THEN side_offset.bid ELSE side_offset.ask
volatility == pricing_debug.volatility
multiplier == getMultiplier(isBid)

Min2(a, b) == IF a <= b THEN a ELSE b
Max2(a, b) == IF a <= b THEN b ELSE a

\* A loop that stops one pair short of zip(amts, rates).
ZipLen_DropLast(a, r) == Max2(Min2(Len(a), Len(r)) - 1, 0)

\* The number of pairs zip(amts, rates) yields.
ZipLen(a, r) == Min2(Len(a), Len(r))

\* amt / 10**tokenDecimals
pLvlOf(amt) == Q(amt, Pow(10, tokenDecimals))

\* prc / 10**tokenDecimals if isBid else 10**tokenDecimals / prc  (prc # 0
\* on ASK)
pPriceOf(prc) ==
    IF isBid THEN Q(prc, Pow(10, tokenDecimals))
    ELSE Q(Pow(10, tokenDecimals), prc)

\* mtxPrice of one level: pPrice + sideOffset + spread, with
\* spread = multiplier * (price * (imbSpread + levelSpread) + volatility),
\* the levelSpread share of it (ls steps of 1e-16) added in float.
mtxPriceOf(pPrice, price, imbSpread, ls) ==
    LET spreadMain == QMul(multiplier, QAdd(QMul(price, imbSpread), volatility))
        spreadEps  == QMul(multiplier, QMul(price, QInt(ls)))
        sideOffset == QMul(price, offset)
    IN  Fl(QAdd(QAdd(pPrice, sideOffset), spreadMain), spreadEps)

\* An entry that also rejects a side without levels.
EntryError_RejectsEmpty ==
    IF bal_dict.target.n = 0 THEN "ZeroDivisionError"
    ELSE IF ZipLen(amts, rates) = 0 THEN "ValueError"
    ELSE ""

\* The exception raised before the loop, "" when none: line 316 divides by
\* bal_dict["target"], a ZeroDivisionError on a zero target.  No other line
\* before the loop raises.
EntryError ==
    IF bal_dict.target.n = 0 THEN "ZeroDivisionError" ELSE ""

\* A floor that is computed for the first side only and left as the side
\* before ended it for the next.
InitialFloor_Carried ==
    IF DOMAIN dbug = {}
    THEN QDiv(QAbs(QSub(bal_dict.current, bal_dict.target)), bal_dict.target)
    ELSE minImb

\* minImb = abs(current - target) / target (line 316): the floor every call
\* starts from, for a target # 0.
InitialFloor ==
    QDiv(QAbs(QSub(bal_dict.current, bal_dict.target)), bal_dict.target)

\* Entry of matrixSideCalculator up to the loop (lines 310-321).
Start ==
    /\ pc = "call"
    /\ IF EntryError # ""
       THEN /\ pc' = "raised"
            /\ err' = EntryError
            /\ UNCHANGED <<minImb, levelSpread, imbalance_spread, matrixPrice>>
       ELSE /\ pc' = "loop"
            /\ minImb' = InitialFloor
            /\ levelSpread' = 0
            /\ imbalance_spread' = <<>>
            /\ matrixPrice' = <<>>
            /\ UNCHANGED err
    /\ UNCHANGED <<side, pricing_debug, bal_dict, maxImbal, historyOffset,
                   side_offset, pwi, tokenDecimals, calls>>
    /\ UNCHANGED <<rebalanceVars, pricingVars, samplerVars, toolVars>>

\* One iteration of the loop over zip(amts, rates) (lines 322-336).
Level ==
    /\ pc = "loop"
    /\ Len(matrixPrice) < ZipLen(amts, rates)
    /\ LET k   == Len(matrixPrice) + 1
           amt == amts[k]
           prc == rates[k]
       IN  IF prc = 0
           THEN \* 10**d / 0 on ASK; lvl_size / 0.0 on BID
                /\ pc' = "raised"
                /\ err' = "ZeroDivisionError"
                /\ UNCHANGED <<minImb, levelSpread, imbalance_spread,
                               matrixPrice, calls, bal_dict>>
           ELSE LET pLvl   == pLvlOf(amt)
                    pPrice == pPriceOf(prc)
                    price  == QAdd(pPrice, historyOffset)
                    r      == imbalanceCalculator(pLvl, pPrice, bal_dict,
                                  maxImbal, minImb, multiplier, pwi)
                IN  /\ minImb' = r.min_Imb
                    /\ bal_dict' = r.bal
                    /\ imbalance_spread' =
                          Append(imbalance_spread, [l |-> pLvl, p |-> r.imbSpread])
                    /\ matrixPrice' =
                          Append(matrixPrice,
                                 [l |-> pLvl,
                                  p |-> mtxPriceOf(pPrice, price, r.imbSpread,
                                                   levelSpread)])
                    /\ levelSpread' = levelSpread + 1
                    /\ calls' = Append(calls, [minImb |-> minImb] @@ r)
                    /\ UNCHANGED <<pc, err>>
    /\ UNCHANGED <<side, pricing_debug, maxImbal, historyOffset,
                   side_offset, pwi, tokenDecimals>>
    /\ UNCHANGED <<rebalanceVars, pricingVars, samplerVars, toolVars>>

\* return imbalance_spread, matrixPrice (line 337).
Return ==
    /\ pc = "loop"
    /\ Len(matrixPrice) = ZipLen(amts, rates)
    /\ pc' = "returned"
    /\ UNCHANGED <<side, pricing_debug, bal_dict, maxImbal, historyOffset,
                   side_offset, pwi, tokenDecimals, err, minImb, levelSpread,
                   imbalance_spread, matrixPrice, calls>>
    /\ UNCHANGED <<rebalanceVars, pricingVars, samplerVars, toolVars>>

\* --------------------------------------------------------- get_tokenPricing

\* The members of Side in definition order, the order of `for side in Side`.
SideOrder == <<"BID", "ASK">>

\* ReserveClient.get_assetID: self.tokens.get(asset, 0)
get_assetID(k, a) == IF a \in DOMAIN k.tokens THEN k.tokens[a] ELSE 0

\* ReserveClient.get_decimals: self.tokens_decimals.get(asset, 0)
get_decimals(k, a) ==
    IF a \in DOMAIN k.tokens_decimals THEN k.tokens_decimals[a] ELSE 0

\* ReserveClient.get_currentBalance, as [err, value].  k.balances is what
\* get_balances returns: a dict with the key "failed" when the request or
\* its decoding failed, else the list of balance entries.  On "failed" the
\* method returns 0.0; an asset id without an entry leaves balance_i = {}
\* and balance_i["exchanges"] raises KeyError; an entry without exchanges
\* raises IndexError at exchanges[0].
get_currentBalance(k, id) ==
    IF k.balances.failed THEN [err |-> "", value |-> QZero]
    ELSE LET data == k.balances.data
             hits == {i \in 1 .. Len(data) : data[i].asset_id = id}
         IN  IF hits = {} THEN [err |-> "KeyError", value |-> QZero]
             ELSE LET b == data[CHOOSE i \in hits : \A j \in hits : i <= j]
                  IN  IF b.exchanges = <<>>
                      THEN [err |-> "IndexError", value |-> QZero]
                      ELSE [err |-> "",
                            value |-> QAdd(b.exchanges[1].available, b.reserve)]

\* get_tokenPricing up to its loop over the sides (lines 349-358).  With
\* pricing_debug None line 354 calls kr.get_asset_rate, a method
\* ReserveClient does not have: AttributeError.
GetInputs ==
    /\ tpc = "call"
    /\ LET id == get_assetID(kr, asset)
           cb == get_currentBalance(kr, id)
       IN  /\ assetID' = id
           /\ IF cb.err # ""
              THEN /\ tpc' = "raised"
                   /\ terr' = cb.err
                   /\ UNCHANGED <<bal_dict, tokenDecimals, side, pc, mtx, dbug>>
              ELSE /\ bal_dict' = [current |-> cb.value, target |-> totalTarget]
                   /\ IF ~debugGiven
                      THEN /\ tpc' = "raised"
                           /\ terr' = "AttributeError"
                           /\ UNCHANGED <<tokenDecimals, side, pc, mtx, dbug>>
                      ELSE /\ tokenDecimals' = get_decimals(kr, asset)
                           /\ mtx' = <<>>
                           /\ dbug' = <<>>
                           /\ side' = SideOrder[1]
                           /\ pc' = "call"
                           /\ tpc' = "sides"
                           /\ UNCHANGED terr
    /\ UNCHANGED <<pricing_debug, maxImbal, historyOffset, side_offset, pwi, err,
                   minImb, levelSpread, imbalance_spread, matrixPrice, calls>>
    /\ UNCHANGED <<kr, asset, totalTarget, debugGiven, cycle, prev>>
    /\ UNCHANGED <<rebalanceVars, samplerVars, toolVars>>

\* dbug[side], mtx[side] = matrixSideCalculator(...) has returned: the pair
\* is stored and the loop goes to the next side, or to `return mtx, dbug`
\* after the last (lines 359-370).
StoreSide ==
    /\ tpc = "sides"
    /\ pc = "returned"
    /\ dbug' = (side :> imbalance_spread) @@ dbug
    /\ mtx' = (side :> matrixPrice) @@ mtx
    /\ IF side = SideOrder[1]
       THEN /\ side' = SideOrder[2]
            /\ pc' = "call"
            /\ UNCHANGED tpc
       ELSE /\ tpc' = "returned"
            /\ pc' = "idle"
            /\ UNCHANGED side
    /\ UNCHANGED <<pricing_debug, bal_dict, maxImbal, historyOffset, side_offset,
                   pwi, tokenDecimals, err, minImb, levelSpread,
                   imbalance_spread, matrixPrice, calls>>
    /\ UNCHANGED <<kr, asset, totalTarget, debugGiven, terr, assetID, cycle,
                   prev>>
    /\ UNCHANGED <<rebalanceVars, samplerVars, toolVars>>

\* matrixSideCalculator raised: get_tokenPricing has no try, the exception
\* leaves it.
Unwind ==
    /\ tpc = "sides"
    /\ pc = "raised"
    /\ tpc' = "raised"
    /\ terr' = err
    /\ pc' = "idle"
    /\ UNCHANGED <<side, pricing_debug, bal_dict, maxImbal, historyOffset,
                   side_offset, pwi, tokenDecimals, err, minImb, levelSpread,
                   imbalance_spread, matrixPrice, calls>>
    /\ UNCHANGED <<kr, asset, totalTarget, debugGiven, assetID, mtx, dbug,
                   cycle, prev>>
    /\ UNCHANGED <<rebalanceVars, samplerVars, toolVars>>

\* The caller keeps what the first pricing cycle returned and starts a
\* second cycle with the same arguments.
NextCycle ==
    /\ tpc = "returned"
    /\ cycle = 1
    /\ cycle' = 2
    /\ prev' = [mtx |-> mtx, dbug |-> dbug]
    /\ tpc' = "call"
    /\ UNCHANGED ladderVars
    /\ UNCHANGED <<kr, asset, totalTarget, debugGiven, terr, assetID, mtx, dbug>>
    /\ UNCHANGED <<rebalanceVars, samplerVars, toolVars>>

\* ------------------------------------------------------ rebalance analysis

\* priceCalculation with the linear term subtracted.
priceCalculation_MinusLinear(q, x) ==
    QMul(QAdd(QSub(QMul(QMul(q.priceA, x), x), QMul(q.priceB, x)), q.priceC),
         q.priceOffset)

\* RebalanceQuadratic.priceCalculation
priceCalculation(q, x) ==
    QMul(QAdd(QAdd(QMul(QMul(q.priceA, x), x), QMul(q.priceB, x)), q.priceC),
         q.priceOffset)

\* The net balance of an exchange entry with the borrowed margin added.
ExchangeNet_AddsBorrowed(ex) ==
    QAdd(QAdd(QAdd(ex.available, ex.locked), ex.margin_balance.free),
         ex.margin_balance.borrowed)

\* The net balance of one exchange entry (lines 436-441).
ExchangeNet(ex) ==
    QSub(QAdd(QAdd(ex.available, ex.locked), ex.margin_balance.free),
         ex.margin_balance.borrowed)

RECURSIVE SumExchanges(_)
SumExchanges(exs) ==
    IF exs = <<>> THEN QZero
    ELSE QAdd(ExchangeNet(Head(exs)), SumExchanges(Tail(exs)))

\* AssetBalance.total
AssetBalance_total(b) == QAdd(QAdd(b.reserve, b.virtual), SumExchanges(b.exchanges))

\* imbalance with the difference taken the other way round.
Coin_imbalance_Reversed(c) ==
    QSub(c.asset.target.total, AssetBalance_total(c.balance))

\* Coin.imbalance
Coin_imbalance(c) == QSub(AssetBalance_total(c.balance), c.asset.target.total)

\* Coin.imbalanceRatio, for target.total # 0
Coin_imbalanceRatio(c) == QDiv(Coin_imbalance(c), c.asset.target.total)

\* rebalancePriceOffset without the line offset = max(offset, min...).
Coin_rebalancePriceOffset_NoMax(c, maxOff, minOff) ==
    LET x  == QAbs(QSub(QAbs(Coin_imbalanceRatio(c)),
                        c.asset.target.rebalanceThreshold))
        o1 == priceCalculation(c.asset.rebalanceQuadratic, x)
    IN  QMin(o1, maxOff)

\* Coin.rebalancePriceOffset, for target.total # 0
Coin_rebalancePriceOffset(c, maxOff, minOff) ==
    LET x  == QAbs(QSub(QAbs(Coin_imbalanceRatio(c)),
                        c.asset.target.rebalanceThreshold))
        o1 == priceCalculation(c.asset.rebalanceQuadratic, x)
        o2 == QMin(o1, maxOff)
    IN  QMax(o2, minOff)

\* A call coin.rebalancePriceOffset(maxRebalanceOffset, minRebalanceOffset).
\* imbalanceRatio divides by target.total: ZeroDivisionError when it is 0.
RebalancePriceOffset ==
    /\ rpc = "call"
    /\ IF coin.asset.target.total.n = 0
       THEN /\ rpc' = "raised"
            /\ rerr' = "ZeroDivisionError"
            /\ UNCHANGED offsetResult
       ELSE /\ rpc' = "returned"
            /\ offsetResult' = Coin_rebalancePriceOffset(coin, maxRebalanceOffset,
                                                         minRebalanceOffset)
            /\ UNCHANGED rerr
    /\ UNCHANGED <<coin, maxRebalanceOffset, minRebalanceOffset, queried,
                   totalResult, imbalanceResult, ratioResult>>
    /\ UNCHANGED <<ladderVars, pricingVars, samplerVars, toolVars>>

\* A call coin.balance.total().
Total ==
    /\ rpc = "call"
    /\ "total" \notin queried
    /\ queried' = queried \cup {"total"}
    /\ totalResult' = AssetBalance_total(coin.balance)
    /\ UNCHANGED <<coin, maxRebalanceOffset, minRebalanceOffset, rpc, rerr,
                   offsetResult, imbalanceResult, ratioResult>>
    /\ UNCHANGED <<ladderVars, pricingVars, samplerVars, toolVars>>

\* A call coin.imbalance().
Imbalance ==
    /\ rpc = "call"
    /\ "imbalance" \notin queried
    /\ queried' = queried \cup {"imbalance"}
    /\ imbalanceResult' = Coin_imbalance(coin)
    /\ UNCHANGED <<coin, maxRebalanceOffset, minRebalanceOffset, rpc, rerr,
                   offsetResult, totalResult, ratioResult>>
    /\ UNCHANGED <<ladderVars, pricingVars, samplerVars, toolVars>>

\* A call coin.imbalanceRatio(): ZeroDivisionError when target.total is 0.
ImbalanceRatio ==
    /\ rpc = "call"
    /\ "imbalanceRatio" \notin queried
    /\ IF coin.asset.target.total.n = 0
       THEN /\ rpc' = "raised"
            /\ rerr' = "ZeroDivisionError"
            /\ UNCHANGED <<queried, ratioResult>>
       ELSE /\ queried' = queried \cup {"imbalanceRatio"}
            /\ ratioResult' = Coin_imbalanceRatio(coin)
            /\ UNCHANGED <<rpc, rerr>>
    /\ UNCHANGED <<coin, maxRebalanceOffset, minRebalanceOffset, offsetResult,
                   totalResult, imbalanceResult>>
    /\ UNCHANGED <<ladderVars, pricingVars, samplerVars, toolVars>>

\* ------------------------------------------------- testReserveRebalanceQuad

\* seq with x put before its first element greater than x.
RECURSIVE InsertSorted(_, _)
InsertSorted(seq, x) ==
    IF seq = <<>> THEN <<x>>
    ELSE IF QLe(x, Head(seq)) THEN <<x>> \o seq
    ELSE <<Head(seq)>> \o InsertSorted(Tail(seq), x)

\* pricesX.sort(): the samples in ascending order.
RECURSIVE SortAscending(_)
SortAscending(seq) ==
    IF seq = <<>> THEN <<>>
    ELSE InsertSorted(SortAscending(Tail(seq)), Head(seq))

\* The values rng.uniform(amtFrom, amtTo, size) draws from.
SampleValues(amtFrom, amtTo) ==
    {QInt(v) : v \in {w \in {-11, -6, -1, 4, 9} : amtFrom <= w /\ w < amtTo}}

\* randReservBalanceOffset (lines 497-503, called at lines 515-517): size
\* uniform samples, sorted.
Sample ==
    /\ spc = "call"
    /\ \E pricesX \in [1 .. nOffsets -> SampleValues(resOffsetLow, resOffsetHigh)] :
          resvBalOffsets' = SortAscending(pricesX)
    /\ usdtCoinVars' = <<>>
    /\ spc' = "build"
    /\ UNCHANGED <<reserveAmntSeed, resOffsetLow, resOffsetHigh, nOffsets,
                   exchanges, samplerAsset, serr, imbalRatios, res>>
    /\ UNCHANGED <<ladderVars, rebalanceVars, pricingVars, toolVars>>

\* One pass of the loop over resvBalOffsets (lines 519-530): the Coin of
\* the sample; bal.exchanges[0] raises IndexError on an empty list.
BuildCoin ==
    /\ spc = "build"
    /\ Len(usdtCoinVars) < Len(resvBalOffsets)
    /\ LET i   == resvBalOffsets[Len(usdtCoinVars) + 1]
           bal == [reserve |-> QAdd(reserveAmntSeed, i), virtual |-> QZero,
                   exchanges |-> exchanges]
       IN  IF exchanges = <<>>
           THEN /\ spc' = "raised"
                /\ serr' = "IndexError"
                /\ UNCHANGED usdtCoinVars
           ELSE /\ usdtCoinVars' =
                      Append(usdtCoinVars, [asset |-> samplerAsset, balance |-> bal])
                /\ UNCHANGED <<spc, serr>>
    /\ UNCHANGED <<reserveAmntSeed, resOffsetLow, resOffsetHigh, nOffsets,
                   exchanges, samplerAsset, resvBalOffsets, imbalRatios, res>>
    /\ UNCHANGED <<ladderVars, rebalanceVars, pricingVars, toolVars>>

\* imbalRatios = [i.imbalanceRatio() for i in usdtCoinVars] (line 532).
Ratios ==
    /\ spc = "build"
    /\ Len(usdtCoinVars) = Len(resvBalOffsets)
    /\ IF usdtCoinVars # <<>> /\ samplerAsset.target.total.n = 0
       THEN /\ spc' = "raised"
            /\ serr' = "ZeroDivisionError"
            /\ UNCHANGED imbalRatios
       ELSE /\ imbalRatios' = [k \in 1 .. Len(usdtCoinVars) |->
                                 Coin_imbalanceRatio(usdtCoinVars[k])]
            /\ spc' = "offsets"
            /\ UNCHANGED serr
    /\ UNCHANGED <<reserveAmntSeed, resOffsetLow, resOffsetHigh, nOffsets,
                   exchanges, samplerAsset, resvBalOffsets, usdtCoinVars, res>>
    /\ UNCHANGED <<ladderVars, rebalanceVars, pricingVars, toolVars>>

\* res = [i.rebalancePriceOffset() for i in usdtCoinVars], with the default
\* bounds 0.004 and -0.005, and return imbalRatios, res (lines 533-534).
Offsets ==
    /\ spc = "offsets"
    /\ res' = [k \in 1 .. Len(usdtCoinVars) |->
                 Coin_rebalancePriceOffset(usdtCoinVars[k], Q(4, 1000),
                                           Q(-5, 1000))]
    /\ spc' = "returned"
    /\ UNCHANGED <<reserveAmntSeed, resOffsetLow, resOffsetHigh, nOffsets,
                   exchanges, samplerAsset, serr, resvBalOffsets, usdtCoinVars,
                   imbalRatios>>
    /\ UNCHANGED <<ladderVars, rebalanceVars, pricingVars, toolVars>>

\* ----------------------------------------------------------------- inputs

RECURSIVE SeqsUpTo(_, _)
SeqsUpTo(S, n) ==
    IF n = 0 THEN {<<>>}
    ELSE LET shorter == SeqsUpTo(S, n - 1)
         IN  shorter \cup {Append(s, x) : s \in {t \in shorter : Len(t) = n - 1}, x \in S}

\* Raw amounts and rates, in base units of the token.
Amounts == {10, 20}
Rates == {10, 20}
Decimals == {0, 1}

Balances ==
    { [current |-> QInt(c), target |-> QInt(t)] :
        <<c, t>> \in {<<9, 10>>, <<10, 10>>, <<11, 10>>, <<12, 10>>, <<0, 10>>,
                      <<10, 0>>, <<10, -10>>} }

MaxImbals == {Q(1, 10), QInt(1)}

\* (historyOffset, side_offset, volatility)
Quotes ==
    { [h |-> QZero,   so |-> [bid |-> QZero, ask |-> QZero], vol |-> QZero],
      [h |-> Q(1, 2), so |-> [bid |-> QZero, ask |-> QZero], vol |-> QZero],
      [h |-> QZero,   so |-> [bid |-> Q(-1, 100), ask |-> Q(1, 100)],
       vol |-> Q(1, 100)] }

\* Two convex curves (qA > 0): one growing with the imbalance, and one whose
\* vertex is at 1/2, falling with the imbalance below it.
Curves ==
    { [qA |-> QInt(1), qB |-> QInt(1),  qC |-> QZero,   min_min |-> Q(1, 10)],
      [qA |-> QInt(1), qB |-> QInt(-1), qC |-> QInt(1), min_min |-> Q(1, 10)] }

\* The receiver of rebalancePriceOffset outside a rebalance run.
IdleCoin ==
    [asset   |-> [target |-> [total |-> QInt(1), rebalanceThreshold |-> QZero],
                  rebalanceQuadratic |->
                      [priceA |-> QZero, priceB |-> QZero, priceC |-> QZero,
                       priceOffset |-> QZero]],
     balance |-> [reserve |-> QZero, virtual |-> QZero, exchanges |-> <<>>]]

\* No parameters given to a request.
NoParams == [given |-> FALSE, dict |-> {}]

\* No call of ReserveClient.request.
RequestIdle ==
    /\ request_args = [endpoint |-> "", params |-> NoParams, data |-> "None",
                       json |-> "None", has0xKey |-> TRUE]
    /\ qpc = "idle"
    /\ resp = [kind |-> "", status_code |-> 0, text |-> "", json |-> "NOT_JSON",
               exc |-> ""]
    /\ request_result = <<>>
    /\ qerr = ""

\* No call of load_endpoints.
EndpointsIdle ==
    /\ endpoints_data = <<>>
    /\ endpoints = <<>>
    /\ epc = "idle"
    /\ ep_group = 0
    /\ ep_entry = 0

\* No call of get_all_related_addresses.
BfsIdle ==
    /\ bfs_args = [starting_addresses |-> <<>>, max_step_addresses |-> 0,
                   max_lookup_addresses |-> 0, levels |-> 0, related |-> <<>>]
    /\ visited_addresses = {}
    /\ queue = <<>>
    /\ levels = 0
    /\ looked_up = <<>>
    /\ bpc = "idle"

\* A header dict that was not given.
NoHeaders == [given |-> FALSE, dict |-> <<>>]

\* No RequestItem.
ItemIdle ==
    /\ item = [custom_headers |-> NoHeaders, headers |-> <<>>,
               signed |-> FALSE, body |-> "None", key_id |-> "",
               secret |-> ""]
    /\ clock = 1
    /\ item_log = <<>>

\* No ContextSignedRequest.
MtmIdle ==
    /\ host = ""
    /\ mtm_calls = <<>>

\* No call of _requestGET_retry.
RetryIdle ==
    /\ retries = 0
    /\ results = <<>>
    /\ results_before = <<>>
    /\ attempt_count = 0
    /\ attempts = <<>>
    /\ gpc = "idle"

\* No call of get_activities or get_0x_quote_logs.
WindowIdle ==
    /\ window_args = [fn |-> "", from_time |-> 0, to_time |-> 0]
    /\ from_time = 0
    /\ window_requests = <<>>
    /\ list_activities = <<>>
    /\ wpc = "idle"

\* No call into the client, its endpoints or its tools.
ToolsIdle == RequestIdle /\ EndpointsIdle /\ BfsIdle /\ ItemIdle /\ MtmIdle /\ RetryIdle /\ WindowIdle

\* No run of testReserveRebalanceQuad.
SamplerIdle ==
    /\ reserveAmntSeed = QZero
    /\ resOffsetLow = 0
    /\ resOffsetHigh = 0
    /\ nOffsets = 0
    /\ exchanges = <<>>
    /\ samplerAsset = IdleCoin.asset
    /\ spc = "idle"
    /\ serr = ""
    /\ resvBalOffsets = <<>>
    /\ usdtCoinVars = <<>>
    /\ imbalRatios = <<>>
    /\ res = <<>>

\* No call of get_tokenPricing.
PricingIdle ==
    /\ kr = [tokens |-> <<>>, tokens_decimals |-> <<>>,
             balances |-> [failed |-> TRUE, data |-> <<>>]]
    /\ asset = ""
    /\ totalTarget = QZero
    /\ debugGiven = TRUE
    /\ tpc = "idle"
    /\ terr = ""
    /\ assetID = 0
    /\ mtx = <<>>
    /\ dbug = <<>>
    /\ cycle = 1
    /\ prev = [mtx |-> <<>>, dbug |-> <<>>]

RebalanceIdle ==
    /\ coin = IdleCoin
    /\ maxRebalanceOffset = QZero
    /\ minRebalanceOffset = QZero
    /\ rpc = "idle"
    /\ rerr = ""
    /\ offsetResult = QZero
    /\ queried = {}
    /\ totalResult = QZero
    /\ imbalanceResult = QZero
    /\ ratioResult = QZero

\* The arguments of a call of matrixSideCalculator for one side; the other
\* side's quotes are empty.
GridInputs ==
    /\ side \in Sides
    /\ \E a \in SeqsUpTo(Amounts, MaxLevels), r \in SeqsUpTo(Rates, MaxLevels),
          q \in Quotes :
          /\ pricing_debug =
                IF side = "BID"
                THEN [buy_amounts |-> a, buy_rates |-> r, sell_amounts |-> <<>>,
                      sell_rates |-> <<>>, volatility |-> q.vol]
                ELSE [buy_amounts |-> <<>>, buy_rates |-> <<>>, sell_amounts |-> a,
                      sell_rates |-> r, volatility |-> q.vol]
          /\ historyOffset = q.h
          /\ side_offset = q.so
    /\ bal_dict \in Balances
    /\ maxImbal \in MaxImbals
    /\ pwi \in Curves
    /\ tokenDecimals \in Decimals

\* The BID ladder of two levels of sizes 1 and 2 at prices 1.0 and 1.01,
\* priced at a balance of 900 against a target of 1000 with
\* maxImbalanceRatio 0.5 and no offsets.  The base units are those of a
\* token of 2 decimals: the normalized sizes and prices are the ones that
\* amounts [1e18, 2e18] and rates [1e18, 1.01e18] give at 18 decimals.
ScenarioInputs ==
    /\ side = "BID"
    /\ pricing_debug = [buy_amounts |-> <<100, 200>>, buy_rates |-> <<100, 101>>,
                        sell_amounts |-> <<>>, sell_rates |-> <<>>,
                        volatility |-> QZero]
    /\ historyOffset = QZero
    /\ side_offset = [bid |-> QZero, ask |-> QZero]
    /\ bal_dict = [current |-> QInt(900), target |-> QInt(1000)]
    /\ maxImbal = Q(1, 2)
    /\ pwi \in Curves
    /\ tokenDecimals = 2

Init ==
    /\ GridInputs \/ ScenarioInputs
    /\ pc = "call"
    /\ err = ""
    /\ minImb = QZero
    /\ levelSpread = 0
    /\ imbalance_spread = <<>>
    /\ matrixPrice = <<>>
    /\ calls = <<>>
    /\ RebalanceIdle
    /\ PricingIdle
    /\ SamplerIdle
    /\ ToolsIdle

Next == Start \/ Level \/ Return

Spec == Init /\ [][Next]_vars

\* ------------------------------------------- the rebalance specification

Reserves == {QInt(0), QInt(5), QInt(10), QInt(12), QInt(19)}

ExchangeLists ==
    { <<>>,
      <<[available |-> QInt(2), locked |-> QZero,
         margin_balance |-> [free |-> QZero, borrowed |-> QInt(1)]]>>,
      <<[available |-> QInt(2), locked |-> QZero,
         margin_balance |-> [free |-> QZero, borrowed |-> QInt(1)]],
        [available |-> QInt(1), locked |-> QInt(3),
         margin_balance |-> [free |-> QInt(2), borrowed |-> QZero]]>> }

Virtuals == {QZero, QInt(3)}

Targets ==
    { [total |-> t, rebalanceThreshold |-> th] :
        t \in {QInt(10), QZero, QInt(49)}, th \in {QZero, Q(1, 10), Q(1, 2)} }

\* Curves that leave the default bounds above, below, and not at all, one
\* that falls and then rises with the distance to the threshold, and one
\* with a linear term that rises with it.
Quadratics ==
    { [priceA |-> QInt(1),  priceB |-> QZero, priceC |-> QZero,
       priceOffset |-> Q(1, 100)],
      [priceA |-> QInt(-1), priceB |-> QZero, priceC |-> QZero,
       priceOffset |-> QInt(1)],
      [priceA |-> QZero,    priceB |-> QZero, priceC |-> QInt(1),
       priceOffset |-> Q(1, 1000)],
      [priceA |-> QInt(1),  priceB |-> QInt(-1), priceC |-> QZero,
       priceOffset |-> Q(1, 100)],
      [priceA |-> QInt(1),  priceB |-> QInt(1), priceC |-> QZero,
       priceOffset |-> Q(1, 1000)] }

\* (maxRebalanceOffset, minRebalanceOffset): the defaults of line 467, a
\* caller's pair, and a pair passed with the bounds the wrong way round.
OffsetBounds ==
    { <<Q(4, 1000), Q(-5, 1000)>>, <<Q(1, 100), QZero>>,
      <<Q(-5, 1000), Q(4, 1000)>> }

LadderIdle ==
    /\ side = "BID"
    /\ pricing_debug = [buy_amounts |-> <<>>, buy_rates |-> <<>>,
                        sell_amounts |-> <<>>, sell_rates |-> <<>>,
                        volatility |-> QZero]
    /\ bal_dict = [current |-> QZero, target |-> QInt(1)]
    /\ maxImbal = QZero
    /\ historyOffset = QZero
    /\ side_offset = [bid |-> QZero, ask |-> QZero]
    /\ pwi = [qA |-> QZero, qB |-> QZero, qC |-> QZero, min_min |-> QZero]
    /\ tokenDecimals = 0
    /\ pc = "idle"
    /\ err = ""
    /\ minImb = QZero
    /\ levelSpread = 0
    /\ imbalance_spread = <<>>
    /\ matrixPrice = <<>>
    /\ calls = <<>>

\* Coins over the grid of balances and targets.
GridCoins ==
    { [asset   |-> [target |-> t, rebalanceQuadratic |-> q],
       balance |-> [reserve |-> r, virtual |-> v, exchanges |-> e]] :
        r \in Reserves, v \in Virtuals, e \in ExchangeLists, t \in Targets,
        q \in Quadratics }

\* The coins with target.total = 1000, reserve = 1200, virtual = 0 and no
\* exchanges.
ScenarioCoins ==
    { [asset   |-> [target |-> [total |-> QInt(1000), rebalanceThreshold |-> th],
                    rebalanceQuadratic |-> q],
       balance |-> [reserve |-> QInt(1200), virtual |-> QZero,
                    exchanges |-> <<>>]] :
        th \in {QZero, Q(1, 10)}, q \in Quadratics }

InitRebalance ==
    /\ coin \in GridCoins \cup ScenarioCoins
    /\ \E b \in OffsetBounds :
          /\ maxRebalanceOffset = b[1]
          /\ minRebalanceOffset = b[2]
    /\ rpc = "call"
    /\ rerr = ""
    /\ offsetResult = QZero
    /\ queried = {}
    /\ totalResult = QZero
    /\ imbalanceResult = QZero
    /\ ratioResult = QZero
    /\ LadderIdle
    /\ PricingIdle
    /\ SamplerIdle
    /\ ToolsIdle

NextRebalance == RebalancePriceOffset \/ Total \/ Imbalance \/ ImbalanceRatio

SpecRebalance == InitRebalance /\ [][NextRebalance]_vars

\* --------------------------------------------- the pricing specification

\* The client's tables: one listed token, of id 1 and 1 decimal.
Tokens == [tokens |-> ("KNC" :> 1), tokens_decimals |-> ("KNC" :> 1)]

\* The listed token and a symbol the client does not know.
Assets == {"KNC", "XYZ"}

BalanceEntry(id, reserve, exs) ==
    [asset_id |-> id, reserve |-> QInt(reserve), exchanges |-> exs]

\* What get_balances returns: a failed fetch; the token with a balance of
\* 4 + 5 and of 4 + 7; the token without exchanges; the token missing.
Snapshots ==
    { [failed |-> TRUE, data |-> <<>>],
      [failed |-> FALSE,
       data |-> <<BalanceEntry(2, 1, <<[available |-> QInt(1)]>>),
                  BalanceEntry(1, 5, <<[available |-> QInt(4)]>>)>>],
      [failed |-> FALSE,
       data |-> <<BalanceEntry(1, 7, <<[available |-> QInt(4)]>>)>>],
      [failed |-> FALSE, data |-> <<BalanceEntry(1, 5, <<>>)>>],
      [failed |-> FALSE,
       data |-> <<BalanceEntry(2, 1, <<[available |-> QInt(1)]>>)>>] }

TotalTargets == {QInt(10), QZero}

\* Depth of n levels: sizes growing by 10 a level, each rate from Rates.
DepthAmounts(n) == [i \in 1 .. n |-> 10 * i]

NoQuotes ==
    [buy_amounts |-> <<>>, buy_rates |-> <<>>, sell_amounts |-> <<>>,
     sell_rates |-> <<>>, volatility |-> QZero]

\* A call get_tokenPricing(kr, asset, totalTarget, pwi, maxImbal,
\* historyOffset, side_offset, pricing_debug), with quotes on both sides or
\* with pricing_debug None.
InitPricing ==
    /\ kr \in {Tokens @@ [balances |-> b] : b \in Snapshots}
    /\ asset \in Assets
    /\ totalTarget \in TotalTargets
    /\ debugGiven \in BOOLEAN
    /\ \E q \in {x \in Quotes : x.h = QZero} :
          /\ historyOffset = q.h
          /\ side_offset = q.so
          /\ IF debugGiven
             THEN \E br \in SeqsUpTo(Rates, MaxLevels),
                     sr \in SeqsUpTo(Rates, MaxLevels) :
                     pricing_debug =
                        [buy_amounts |-> DepthAmounts(Len(br)), buy_rates |-> br,
                         sell_amounts |-> DepthAmounts(Len(sr)),
                         sell_rates |-> sr, volatility |-> q.vol]
             ELSE pricing_debug = NoQuotes
    /\ maxImbal \in MaxImbals
    /\ pwi \in Curves
    /\ tpc = "call"
    /\ terr = ""
    /\ assetID = 0
    /\ mtx = <<>>
    /\ dbug = <<>>
    /\ cycle = 1
    /\ prev = [mtx |-> <<>>, dbug |-> <<>>]
    /\ side = "BID"
    /\ bal_dict = [current |-> QZero, target |-> QInt(1)]
    /\ tokenDecimals = 0
    /\ pc = "idle"
    /\ err = ""
    /\ minImb = QZero
    /\ levelSpread = 0
    /\ imbalance_spread = <<>>
    /\ matrixPrice = <<>>
    /\ calls = <<>>
    /\ RebalanceIdle
    /\ SamplerIdle
    /\ ToolsIdle

NextPricing ==
    GetInputs \/ Start \/ Level \/ Return \/ StoreSide \/ Unwind \/ NextCycle

SpecPricing == InitPricing /\ [][NextPricing]_vars

\* --------------------------------------------- the backtest specification

\* (resOffsetLow, resOffsetHigh): a range on both sides of the target and
\* one above it.
OffsetRanges == {<<-11, 10>>, <<-1, 10>>}

\* A run testReserveRebalanceQuad(reserveAmntSeed, resOffsetLow,
\* resOffsetHigh, nOffsets, randSeed, exchanges, asset).
InitSampler ==
    /\ reserveAmntSeed = QInt(10)
    /\ \E rg \in OffsetRanges :
          /\ resOffsetLow = rg[1]
          /\ resOffsetHigh = rg[2]
    /\ nOffsets \in 0 .. MaxSamples
    /\ exchanges \in {e \in ExchangeLists : Len(e) <= 1}
    /\ \E t \in {x \in Targets : x.total \in {QInt(10), QZero}},
          q \in Quadratics :
          samplerAsset = [target |-> t, rebalanceQuadratic |-> q]
    /\ spc = "call"
    /\ serr = ""
    /\ resvBalOffsets = <<>>
    /\ usdtCoinVars = <<>>
    /\ imbalRatios = <<>>
    /\ res = <<>>
    /\ LadderIdle
    /\ RebalanceIdle
    /\ PricingIdle
    /\ ToolsIdle

NextSampler == Sample \/ BuildCoin \/ Ratios \/ Offsets

SpecSampler == InitSampler /\ [][NextSampler]_vars

\* ------------------------------------------------------------- properties

Returned == pc = "returned"
Terminated == pc \in {"returned", "raised"}
Levels == 1 .. Len(matrixPrice)

\* The zipped levels run from best to worst: the sizes never shrink and the
\* normalized prices never rise on BID, never fall on ASK.
BestToWorst ==
    \A i, j \in 1 .. ZipLen(amts, rates) :
        i < j => /\ amts[i] <= amts[j]
                 /\ IF isBid THEN QLe(pPriceOf(rates[j]), pPriceOf(rates[i]))
                    ELSE QLe(pPriceOf(rates[i]), pPriceOf(rates[j]))

\* A PWI curve with no negative coefficient: non-negative and growing with
\* the imbalance.
GrowingCurve ==
    pwi.qA.n >= 0 /\ pwi.qB.n >= 0 /\ pwi.qC.n >= 0 /\ pwi.min_min.n >= 0

RECURSIVE IsPow2(_)
IsPow2(d) == d = 1 \/ (d % 2 = 0 /\ IsPow2(d \div 2))

\* The ladders whose float prices Fl gives exactly: every term of
\* pPrice + sideOffset + spread other than the levelSpread term is a double
\* (no static offset, no volatility, no imbalance spread, a normalized price
\* and a historyOffset with a power of two as denominator).
ExactPrices ==
    /\ offset = QZero /\ volatility = QZero /\ IsPow2(historyOffset.d)
    /\ \A k \in Levels :
          imbalance_spread[k].p = QZero /\ IsPow2(pPriceOf(rates[k]).d)

\* C1: in a returned ladder whose levels came in best-to-worst order, every
\* deeper level is priced strictly further from mid: strictly lower on BID,
\* strictly higher on ASK, so no two levels share a final price.  Stated for
\* configurations the claim cannot be meant to exclude (a positive target, a
\* growing PWI curve) and for the ladders whose float prices are exact.
C1_StrictlyDiverging ==
    (Returned /\ BestToWorst /\ bal_dict.target.n > 0 /\ GrowingCurve
        /\ ExactPrices) =>
        \A i, j \in Levels :
            i < j => IF isBid THEN FLt(matrixPrice[j].p, matrixPrice[i].p)
                     ELSE FLt(matrixPrice[i].p, matrixPrice[j].p)

\* C2: every call of imbalanceCalculator returned (imbal, 0) when its clamped
\* imbalance was <= the floor passed in, ties included, and (floor passed in,
\* PWI.calculate(imbal)) otherwise; the pair is what the ladder recorded.
C2_FloorOrSpread ==
    \A k \in 1 .. Len(calls) :
        LET c == calls[k]
        IN  /\ IF QLe(c.imbal, c.minImb)
               THEN c.min_Imb = c.imbal /\ c.imbSpread = QZero
               ELSE c.min_Imb = c.minImb
                    /\ c.imbSpread = PWI_calculate(pwi, c.imbal)
            /\ imbalance_spread[k].p = c.imbSpread

\* C2 witness: a level that tied with the floor and took the floor branch,
\* and a level above the floor that got a non-zero PWI spread.
C2_Witness ==
    /\ Returned
    /\ \E k \in 1 .. Len(calls) :
          calls[k].imbal = calls[k].minImb /\ calls[k].imbSpread = QZero
    /\ \E k \in 1 .. Len(calls) :
          QLt(calls[k].minImb, calls[k].imbal) /\ calls[k].imbSpread # QZero

RebalanceReturned == rpc = "returned"

InBounds(v) == QLe(minRebalanceOffset, v) /\ QLe(v, maxRebalanceOffset)

\* C3 as claimed: whatever pair of bounds the caller passes, the returned
\* offset lies in [minOffset, maxOffset].
C3_AlwaysWithinBounds == RebalanceReturned => InBounds(offsetResult)

\* C3 as amended: for bounds with minOffset <= maxOffset the returned offset
\* lies in [minOffset, maxOffset].
C3_WithinOrderedBounds ==
    (RebalanceReturned /\ QLe(minRebalanceOffset, maxRebalanceOffset)) =>
        InBounds(offsetResult)

\* C3 witness: an imbalance ratio in [-1, 1], ordered bounds, and a quadratic
\* whose value lies outside the bounds, so the clamp decided the result.
C3_Witness ==
    /\ RebalanceReturned
    /\ QLe(minRebalanceOffset, maxRebalanceOffset)
    /\ QLe(QAbs(Coin_imbalanceRatio(coin)), QInt(1))
    /\ LET x == QAbs(QSub(QAbs(Coin_imbalanceRatio(coin)),
                          coin.asset.target.rebalanceThreshold))
       IN  ~InBounds(priceCalculation(coin.asset.rebalanceQuadratic, x))

\* The final price of level k by the formula of the claim: displayPrice +
\* sideOffset + spread with displayPrice = normalizedPrice + historyOffset.
ClaimedPrice(k) ==
    LET displayPrice == QAdd(pPriceOf(rates[k]), historyOffset)
        sideOffset   == QMul(displayPrice, offset)
        spreadMain   == QMul(multiplier,
                             QAdd(QMul(displayPrice, imbalance_spread[k].p),
                                  volatility))
        spreadEps    == QMul(multiplier, QMul(displayPrice, QInt(k - 1)))
    IN  Fl(QAdd(QAdd(displayPrice, sideOffset), spreadMain), spreadEps)

\* C4: the final price of every level is displayPrice + sideOffset + spread,
\* so a non-zero historyOffset shifts its base term by historyOffset.
C4_FinalPriceFromDisplayPrice ==
    \A k \in Levels : matrixPrice[k].p = ClaimedPrice(k)

\* C5: for a side whose amounts and rates pair up, the returned ladder and
\* trace each have as many entries as the side has levels, and entry k of
\* both carries amounts[k] / 10^decimals.
C5_SameLengthAndSizes ==
    (Returned /\ Len(amts) = Len(rates)) =>
        /\ Len(matrixPrice) = Len(amts)
        /\ Len(imbalance_spread) = Len(amts)
        /\ \A k \in 1 .. Len(amts) :
              /\ matrixPrice[k].l = Q(amts[k], Pow(10, tokenDecimals))
              /\ imbalance_spread[k].l = Q(amts[k], Pow(10, tokenDecimals))

\* C5 witness: a returned ladder of MaxLevels levels of different sizes,
\* with decimals that change the sizes.
C5_Witness ==
    /\ Returned
    /\ Len(amts) = MaxLevels /\ Len(rates) = MaxLevels
    /\ tokenDecimals > 0
    /\ matrixPrice[1].l # matrixPrice[MaxLevels].l

\* C6: with amounts and rates of different lengths (and a positive target,
\* so that nothing else fails first) the call ends in an error; it does not
\* return a ladder.
C6_MismatchRaises ==
    (Terminated /\ Len(amts) # Len(rates) /\ bal_dict.target.n > 0) =>
        pc = "raised"

\* C7: with a target total of zero or below the call ends in an error; it
\* returns no ladder.
C7_NonPositiveTargetRaises ==
    (Terminated /\ bal_dict.target.n <= 0) => pc = "raised"

EmptyInput == amts = <<>> /\ rates = <<>>

\* C8 as claimed: with empty amounts and rates the call returns two empty
\* sequences and raises nothing, whatever the balance and target.
C8_EmptyNeverRaises ==
    EmptyInput =>
        /\ pc # "raised"
        /\ Returned => (matrixPrice = <<>> /\ imbalance_spread = <<>>)

\* C8 as amended: the same for every balance and every non-zero target.
C8_EmptyReturnsEmpty ==
    (EmptyInput /\ bal_dict.target.n # 0) =>
        /\ pc # "raised"
        /\ err = ""
        /\ Returned => (matrixPrice = <<>> /\ imbalance_spread = <<>>)

\* C8 witness: a call with empty amounts and rates has returned.
C8_Witness == EmptyInput /\ Returned /\ matrixPrice = <<>>

\* C9: with target > 0 and maxImbalanceRatio >= 0 every level's simulated
\* balance is >= 0, its imbalance lies in [0, maxImbalanceRatio], and the PWI
\* curve was evaluated only inside [0, maxImbalanceRatio].
C9_ClampedImbalance ==
    (bal_dict.target.n > 0 /\ QLe(QZero, maxImbal)) =>
        \A k \in 1 .. Len(calls) :
            LET c == calls[k]
            IN  /\ QLe(QZero, c.virtual)
                /\ QLe(QZero, c.imbal) /\ QLe(c.imbal, maxImbal)
                /\ \A a \in 1 .. Len(c.pwiArgs) :
                      QLe(QZero, c.pwiArgs[a]) /\ QLe(c.pwiArgs[a], maxImbal)

\* C9 witness: a level that would empty the balance (virtual floored at 0)
\* whose imbalance was cut to maxImbalanceRatio and passed to the PWI curve.
C9_Witness ==
    /\ bal_dict.target.n > 0
    /\ \E k \in 1 .. Len(calls) :
          /\ calls[k].virtual = QZero
          /\ calls[k].imbal = maxImbal
          /\ QLt(maxImbal, QInt(1))
          /\ calls[k].pwiArgs = <<maxImbal>>

\* C10: over the levels of one ladder the floor never rises; it changes only
\* at a level that took the floor branch (spread 0, its imbalance the new
\* floor); a level that got a PWI spread leaves it as it was.
C10_FloorNeverRises ==
    [][(pc = "loop" /\ pc' = "loop") =>
          /\ QLe(minImb', minImb)
          /\ minImb' # minImb =>
                /\ Len(calls') = Len(calls) + 1
                /\ calls'[Len(calls')].imbSpread = QZero
                /\ calls'[Len(calls')].pwiArgs = <<>>
                /\ minImb' = calls'[Len(calls')].imbal
          /\ (Len(calls') = Len(calls) + 1
                /\ calls'[Len(calls')].pwiArgs # <<>>) => minImb' = minImb]_vars

\* C10 witness: a ladder in which one level lowered the floor and a later
\* level got a PWI spread.
C10_Witness ==
    \E j, k \in 1 .. Len(calls) :
        /\ j < k
        /\ calls[j].min_Imb # calls[j].minImb
        /\ calls[k].pwiArgs # <<>>

\* The last level that lowered the running floor (0 when none did), and the
\* levels after it.
LastFloorUpdate ==
    LET upd == {k \in 1 .. Len(calls) : calls[k].pwiArgs = <<>>}
    IN  IF upd = {} THEN 0 ELSE CHOOSE k \in upd : \A j \in upd : j <= k
SettledLevels == {k \in 1 .. Len(calls) : k > LastFloorUpdate}

\* Over the levels after the last floor update, imbSpread never falls when
\* the imbalance rises.
SpreadFollowsImbalance ==
    \A a, b \in SettledLevels :
        QLe(calls[a].imbal, calls[b].imbal) =>
            QLe(calls[a].imbSpread, calls[b].imbSpread)

\* C11 as stated: for a convex PWI curve with a non-negative leading
\* coefficient (and a positive target and scale factor), once the floor has
\* stopped updating, the imbSpread of the later levels is non-decreasing in
\* their imbalance.
C11_ConvexCurveMonotone ==
    (Returned /\ bal_dict.target.n > 0 /\ pwi.qA.n >= 0 /\ pwi.min_min.n >= 0)
        => SpreadFollowsImbalance

\* C11 amended: the same for a curve whose linear coefficient is
\* non-negative too, which is what makes it non-decreasing on [0, maxImbal].
C11_NonNegativeCurveMonotone ==
    (Returned /\ bal_dict.target.n > 0 /\ pwi.qA.n >= 0 /\ pwi.qB.n >= 0
        /\ pwi.min_min.n >= 0) => SpreadFollowsImbalance

\* C11 witness: a returned ladder over such a curve with two levels after
\* the last floor update, the second at a higher imbalance and spread.
C11_Witness ==
    /\ Returned /\ bal_dict.target.n > 0
    /\ pwi.qA.n >= 0 /\ pwi.qB.n >= 0 /\ pwi.min_min.n >= 0
    /\ \E a, b \in SettledLevels :
          /\ QLt(calls[a].imbal, calls[b].imbal)
          /\ QLt(calls[a].imbSpread, calls[b].imbSpread)

\* C12 as stated: in the scenario level 1 gets imbSpread 0 and the final
\* price 1.0, and level 2 gets a non-zero imbSpread and a final price below
\* 1.01 by that spread.
C12_SecondLevelGetsSpread ==
    (ScenarioInputs /\ Returned) =>
        /\ imbalance_spread[1].p = QZero
        /\ matrixPrice[1].p = [m |-> QInt(1), u |-> QZero]
        /\ imbalance_spread[2].p # QZero
        /\ matrixPrice[2].p.m =
              QSub(Q(101, 100), QMul(Q(101, 100), imbalance_spread[2].p))
        /\ QLt(matrixPrice[2].p.m, Q(101, 100))

\* C12 amended: in the scenario both levels improve on the floor (0.1, then
\* 0.099, then 98020/1010000), both get imbSpread 0, and the final prices
\* are 1.0 and 1.01 less a tie-break of one step of 1e-16.
C12_BothLevelsImprove ==
    (ScenarioInputs /\ Returned) =>
        /\ calls[1].minImb = Q(1, 10)
        /\ calls[1].imbal = Q(99, 1000) /\ calls[1].min_Imb = Q(99, 1000)
        /\ imbalance_spread[1].p = QZero
        /\ matrixPrice[1].p = [m |-> QInt(1), u |-> QZero]
        /\ QLt(calls[2].imbal, Q(99, 1000)) /\ calls[2].min_Imb = calls[2].imbal
        /\ calls[2].virtual = QAdd(QInt(900), Q(200, 101))
        /\ imbalance_spread[2].p = QZero
        /\ matrixPrice[2].p.m = Q(101, 100)
        /\ levelSpread = 2

\* C12 witness: the scenario's ladder has been returned with its two levels.
C12_Witness ==
    ScenarioInputs /\ Returned /\ Len(matrixPrice) = 2 /\ Len(calls) = 2

\* What matrixSideCalculator returns for side s taken alone, from level k on:
\* a function of that side's amounts and rates and of the arguments both
\* sides share, with floor the running floor before level k and acc the
\* pair of lists built so far.
RECURSIVE SideAlone(_, _, _, _)
SideAlone(s, k, floor, acc) ==
    LET bid == s = "BID"
        a   == IF bid THEN pricing_debug.buy_amounts ELSE pricing_debug.sell_amounts
        r   == IF bid THEN pricing_debug.buy_rates ELSE pricing_debug.sell_rates
    IN  IF k > ZipLen(a, r) THEN acc
        ELSE LET mult   == IF bid THEN QInt(-1) ELSE QInt(1)
                 off    == IF bid THEN side_offset.bid ELSE side_offset.ask
                 pLvl   == Q(a[k], Pow(10, tokenDecimals))
                 pPrice == IF bid THEN Q(r[k], Pow(10, tokenDecimals))
                           ELSE Q(Pow(10, tokenDecimals), r[k])
                 price  == QAdd(pPrice, historyOffset)
                 lvl    == imbalanceCalculator(pLvl, pPrice, bal_dict, maxImbal,
                                               floor, mult, pwi)
                 final  == Fl(QAdd(QAdd(pPrice, QMul(price, off)),
                                   QMul(mult, QAdd(QMul(price, lvl.imbSpread),
                                                   pricing_debug.volatility))),
                              QMul(mult, QMul(price, QInt(k - 1))))
             IN  SideAlone(s, k + 1, lvl.min_Imb,
                    [dbug |-> Append(acc.dbug, [l |-> pLvl, p |-> lvl.imbSpread]),
                     mtx  |-> Append(acc.mtx, [l |-> pLvl, p |-> final])])

\* The pre-trade imbalance |current - target| / target.
PreTradeImbalance ==
    QDiv(QAbs(QSub(bal_dict.current, bal_dict.target)), bal_dict.target)

PricingReturned == tpc = "returned"

\* C13: whenever get_tokenPricing has stored or returned the result of a
\* side, that side's ladder and trace are what matrixSideCalculator gives
\* for the side alone, started from the pre-trade imbalance: they do not
\* depend on the other side's levels nor on the side computed before.
C13_SidesIndependent ==
    (tpc \in {"sides", "returned"}) =>
        \A s \in DOMAIN mtx :
            LET alone == SideAlone(s, 1, PreTradeImbalance,
                                   [dbug |-> <<>>, mtx |-> <<>>])
            IN  mtx[s] = alone.mtx /\ dbug[s] = alone.dbug

\* C13 witness: a returned pricing in which the side priced first lowered
\* the floor and the side priced second, with levels of its own, got a
\* level at spread 0 by a floor that the first side's would have denied.
C13_Witness ==
    /\ PricingReturned
    /\ DOMAIN mtx = Sides
    /\ Len(mtx["BID"]) > 0 /\ Len(mtx["ASK"]) > 0
    /\ \E j, k \in 1 .. Len(calls) :
          /\ j <= Len(mtx["BID"]) /\ k > Len(mtx["BID"])
          /\ QLt(calls[j].min_Imb, PreTradeImbalance)
          /\ calls[k].pwiArgs = <<>>
          /\ QLt(calls[j].min_Imb, calls[k].imbal)

\* The inputs of a pricing that cannot be obtained: the balance fetch
\* failed, the symbol is unknown to the client, the snapshot has no entry
\* for the asset, or the target is zero.
InputsUnobtainable ==
    \/ kr.balances.failed
    \/ asset \notin DOMAIN kr.tokens
    \/ \A i \in 1 .. Len(kr.balances.data) :
          kr.balances.data[i].asset_id # get_assetID(kr, asset)
    \/ totalTarget = QZero

\* C15: a pricing whose inputs could not be obtained never returns a
\* ladder: get_tokenPricing ends by raising, with nothing returned.
C15_UnobtainableInputsRaise ==
    InputsUnobtainable => ~PricingReturned

\* C17: no step of a pricing changes an argument of get_tokenPricing (the
\* client's tables and balances, the quotes, the offsets, the curve), no
\* step of matrixSideCalculator changes the bal_dict it was given, and a
\* second cycle over the same snapshot returns what the first returned.
C17_InputsUntouched ==
    /\ [][/\ UNCHANGED <<kr, asset, totalTarget, pricing_debug, maxImbal,
                          historyOffset, side_offset, pwi>>
          /\ (pc \in {"call", "loop"}) => UNCHANGED <<bal_dict, tokenDecimals>>]_vars
    /\ [](cycle = 2 /\ PricingReturned =>
             mtx = prev.mtx /\ dbug = prev.dbug)

\* C17 witness: the second cycle has returned, after ladders with levels on
\* both sides of which one moved the virtual balance off the current one.
C17_Witness ==
    /\ cycle = 2 /\ PricingReturned
    /\ Len(prev.mtx["BID"]) > 0 /\ Len(prev.mtx["ASK"]) > 0
    /\ \E k \in 1 .. Len(calls) : calls[k].virtual # bal_dict.current

\* C14: with a non-negative displayPrice (normalized price + historyOffset),
\* imbSpread and volatility, every BID level is priced at or below
\* displayPrice + sideOffset and every ASK level at or above it.
C14_BidsDownAsksUp ==
    \A k \in Levels :
        LET price == QAdd(pPriceOf(rates[k]), historyOffset)
            bound == [m |-> QAdd(price, QMul(price, offset)), u |-> QZero]
        IN  (QLe(QZero, price) /\ QLe(QZero, imbalance_spread[k].p)
                /\ QLe(QZero, volatility)) =>
                IF isBid THEN ~FLt(bound, matrixPrice[k].p)
                ELSE ~FLt(matrixPrice[k].p, bound)

\* C16: two consecutive levels with the same imbSpread and the same
\* normalized price never share a final price: the second is strictly
\* further from mid, lower on BID and higher on ASK.  Stated for the
\* ladders whose float prices are exact.
C16_TieBreakSeparates ==
    (Returned /\ ExactPrices) =>
        \A k \in Levels :
            (k + 1 \in Levels
                /\ imbalance_spread[k].p = imbalance_spread[k + 1].p
                /\ pPriceOf(rates[k]) = pPriceOf(rates[k + 1])) =>
                IF isBid THEN FLt(matrixPrice[k + 1].p, matrixPrice[k].p)
                ELSE FLt(matrixPrice[k].p, matrixPrice[k + 1].p)

\* The sum over i in idx of term[i].
RECURSIVE SumOver(_, _)
SumOver(idx, term) ==
    IF idx = {} THEN QZero
    ELSE LET i == CHOOSE j \in idx : TRUE
         IN  QAdd(term[i], SumOver(idx \ {i}, term))

\* C18: total() is reserve + virtual + the sum over the exchanges of
\* available + locked + margin free - margin borrowed; reserve + virtual
\* when there is no exchange.
C18_TotalIsSumOfBalances ==
    ("total" \in queried) =>
        LET b   == coin.balance
            net == [i \in 1 .. Len(b.exchanges) |->
                      QSub(QAdd(QAdd(b.exchanges[i].available,
                                     b.exchanges[i].locked),
                                b.exchanges[i].margin_balance.free),
                           b.exchanges[i].margin_balance.borrowed)]
        IN  /\ totalResult =
                  QAdd(QAdd(b.reserve, b.virtual),
                       SumOver(1 .. Len(b.exchanges), net))
            /\ b.exchanges = <<>> => totalResult = QAdd(b.reserve, b.virtual)

\* C18 witness: total() was called on a balance with a virtual part and two
\* exchanges, one of them with borrowed margin.
C18_Witness ==
    /\ "total" \in queried
    /\ coin.balance.virtual # QZero
    /\ Len(coin.balance.exchanges) = 2
    /\ \E i \in 1 .. 2 : coin.balance.exchanges[i].margin_balance.borrowed # QZero

\* 2^k mod b, for k >= 0 and b > 0.
RECURSIVE PowMod2(_, _)
PowMod2(k, b) == IF k = 0 THEN 1 % b ELSE (2 * PowMod2(k - 1, b)) % b

\* Whether (a / b) * b, computed in doubles, gives a back, for integers a
\* and b > 0.  The quotient is rounded to 53 bits, 2^k its scale: it is off
\* a/b by c / (b * 2^k), with c the signed distance of a * 2^k to the
\* nearest multiple of b, so the product is a + c / 2^k exactly, and it
\* rounds to a when c / 2^k is within half the spacing of doubles at a on
\* that side (one binade finer just below a power of two).
DivMulExact(a, b) ==
    IF a = 0 THEN TRUE
    ELSE LET mag == IAbs(a)
             eq  == Log2Floor(mag, b)
             r   == ((mag % b) * PowMod2(52 - eq, b)) % b
         IN  IF r = 0 THEN TRUE
             ELSE LET c  == IF 2 * r < b THEN -r ELSE b - r
                      ea == Log2Floor(mag, 1)
                      ex == ea - eq - 1 - (IF c < 0 /\ IsPow2(mag) THEN 1 ELSE 0)
                  IN  IF ex >= 0 THEN IAbs(c) <= Pow(2, ex)
                      ELSE IAbs(c) * Pow(2, -ex) <= 1

\* C19 as stated: imbalance() is total() less target.total, and
\* imbalanceRatio() times target.total is imbalance(); 200 and 0.2 for the
\* coin with target 1000, reserve 1200, virtual 0 and no exchanges.
C19_RatioTimesTargetIsImbalance ==
    LET target == coin.asset.target.total
    IN  /\ ("imbalance" \in queried /\ "total" \in queried) =>
              imbalanceResult = QSub(totalResult, target)
        /\ ("imbalanceRatio" \in queried /\ "imbalance" \in queried) =>
              /\ ratioResult = QDiv(imbalanceResult, target)
              /\ (imbalanceResult.d = 1 /\ target.d = 1 /\ target.n > 0) =>
                    DivMulExact(imbalanceResult.n, target.n)
        /\ ("imbalance" \in queried /\ coin \in ScenarioCoins) =>
              imbalanceResult = QInt(200)
        /\ ("imbalanceRatio" \in queried /\ coin \in ScenarioCoins) =>
              ratioResult = Q(2, 10)

\* C19 amended: imbalance() is total() less target.total and
\* imbalanceRatio() is imbalance() / target.total, their product with
\* target.total being imbalance() before rounding; for the coin of the
\* example they are 200 and 0.2 and the product in doubles is 200 again.
C19_RatioIsImbalanceOverTarget ==
    LET target == coin.asset.target.total
    IN  /\ ("imbalance" \in queried /\ "total" \in queried) =>
              imbalanceResult = QSub(totalResult, target)
        /\ ("imbalanceRatio" \in queried /\ "imbalance" \in queried) =>
              /\ ratioResult = QDiv(imbalanceResult, target)
              /\ QMul(ratioResult, target) = imbalanceResult
        /\ ("imbalance" \in queried /\ coin \in ScenarioCoins) =>
              /\ imbalanceResult = QInt(200)
              /\ DivMulExact(200, 1000)
        /\ ("imbalanceRatio" \in queried /\ coin \in ScenarioCoins) =>
              ratioResult = Q(2, 10)

\* C19 witness: all three methods were called on the coin of the example.
C19_Witness ==
    /\ queried = {"total", "imbalance", "imbalanceRatio"}
    /\ coin \in ScenarioCoins
    /\ imbalanceResult # QZero

SamplerReturned == spc = "returned"

\* The offsets follow the imbalance ratios one way: never falling, or never
\* rising, as the ratio rises.
OffsetsMonotone ==
    \/ \A i, j \in 1 .. Len(res) :
          QLe(imbalRatios[i], imbalRatios[j]) => QLe(res[i], res[j])
    \/ \A i, j \in 1 .. Len(res) :
          QLe(imbalRatios[i], imbalRatios[j]) => QLe(res[j], res[i])

\* The sampled ratios lie in one of the four ranges on which the distance
\* | |ratio| - threshold | goes one way: at or below -threshold, between
\* -threshold and 0, between 0 and threshold, at or above threshold.
OneRange ==
    LET th == samplerAsset.target.rebalanceThreshold
        rs == {imbalRatios[k] : k \in 1 .. Len(imbalRatios)}
    IN  \/ \A r \in rs : QLe(r, QNeg(th))
        \/ \A r \in rs : QLe(QNeg(th), r) /\ QLe(r, QZero)
        \/ \A r \in rs : QLe(QZero, r) /\ QLe(r, th)
        \/ \A r \in rs : QLe(th, r)

\* priceA and priceB are not of opposite signs: the quadratic goes one way
\* over the distances x >= 0.
OneWayQuadratic ==
    samplerAsset.rebalanceQuadratic.priceA.n
        * samplerAsset.rebalanceQuadratic.priceB.n >= 0

\* C20 as stated: over the coins of a returned backtest run the price
\* offsets, taken in ascending order of imbalance ratio, are all
\* non-decreasing or all non-increasing.
C20_OffsetsMonotoneInRatio ==
    SamplerReturned => OffsetsMonotone

\* C20 amended: the same when the sampled ratios lie in one of the four
\* ranges bounded by -threshold, 0 and threshold and the quadratic goes one
\* way over x >= 0.
C20_OffsetsMonotoneInOneRange ==
    (SamplerReturned /\ OneRange /\ OneWayQuadratic) => OffsetsMonotone

\* C20 witness: a returned run of three samples at three different ratios
\* in one range, with offsets that are not all the same.
C20_Witness ==
    /\ SamplerReturned /\ OneRange /\ OneWayQuadratic
    /\ Len(res) >= 3
    /\ QLt(imbalRatios[1], imbalRatios[2]) /\ QLt(imbalRatios[2], imbalRatios[3])
    /\ res[1] # res[2] /\ res[2] # res[3]

SamplerEnded == spc \in {"returned", "raised"}

\* C21: a backtest run for nOffsets samples over an asset with a positive
\* target returns two sequences of nOffsets entries, entry k of both that of
\* the coin built from the k-th sorted sample, the imbalance ratios in
\* non-decreasing order.
C21_ParallelSortedSequences ==
    (SamplerEnded /\ samplerAsset.target.total.n > 0) =>
        /\ SamplerReturned
        /\ Len(imbalRatios) = nOffsets /\ Len(res) = nOffsets
        /\ \A k \in 1 .. nOffsets :
              /\ usdtCoinVars[k].balance.reserve =
                    QAdd(reserveAmntSeed, resvBalOffsets[k])
              /\ imbalRatios[k] = Coin_imbalanceRatio(usdtCoinVars[k])
              /\ res[k] = Coin_rebalancePriceOffset(usdtCoinVars[k], Q(4, 1000),
                                                    Q(-5, 1000))
        /\ \A i, j \in 1 .. nOffsets :
              i < j => QLe(imbalRatios[i], imbalRatios[j])

\* The distance of a balance from the target, and whether a balance lies on
\* the other side of the target than the balance before any trade.
TargetDistance(b) == QAbs(QSub(b, bal_dict.target))
OtherSide(b) ==
    \/ QLt(b, bal_dict.target) /\ QLt(bal_dict.target, bal_dict.current)
    \/ QLt(bal_dict.target, b) /\ QLt(bal_dict.current, bal_dict.target)

\* C22: for a positive target, a level whose simulated balance is closer to
\* the target than that of the level before it (the balance before any trade
\* for the first level), on the same side, gets no imbalance spread; a level
\* whose simulated balance is further from the target than that of the level
\* before it, or lies on the other side of the target, gets the PWI spread.
C22_SpreadByPreviousLevel ==
    bal_dict.target.n > 0 =>
        \A k \in 1 .. Len(calls) :
            LET before == IF k = 1 THEN bal_dict.current
                          ELSE calls[k - 1].virtual
                now    == calls[k].virtual
                spread == calls[k].pwiArgs # <<>>
            IN  /\ (QLt(TargetDistance(now), TargetDistance(before))
                      /\ ~OtherSide(now)) => ~spread
                /\ (QLt(TargetDistance(before), TargetDistance(now))
                      \/ OtherSide(now)) => spread

\* The pre-trade imbalance is defined and at least maxImbalanceRatio.
FloorStartsAtCap ==
    bal_dict.target.n # 0 /\ QLe(maxImbal, PreTradeImbalance)

\* Every imbSpread of the trace is 0, from the floor branch, or the PWI value
\* of an imbalance strictly above the running floor and at most maxImbal.
SpreadIsZeroOrPWI ==
    \A k \in 1 .. Len(calls) :
        \/ calls[k].imbSpread = QZero /\ calls[k].pwiArgs = <<>>
        \/ /\ calls[k].pwiArgs = <<calls[k].imbal>>
           /\ calls[k].imbSpread = PWI_calculate(pwi, calls[k].imbal)
           /\ QLt(calls[k].minImb, calls[k].imbal)
           /\ QLe(calls[k].imbal, maxImbal)

\* C30 as stated: when the pre-trade imbalance is at least maxImbalanceRatio
\* every level gets imbSpread 0; and every imbSpread is 0 or the PWI value of
\* an imbalance strictly above the running floor and at most maxImbal.
C30_AllSpreadsZeroAtCap ==
    /\ FloorStartsAtCap =>
          \A k \in 1 .. Len(calls) : calls[k].imbSpread = QZero
    /\ SpreadIsZeroOrPWI

\* C30 amended: when the pre-trade imbalance is at least maxImbalanceRatio a
\* level gets imbSpread 0 if every level before it had an imbalance clamped
\* to maxImbalanceRatio (the first level always); and every imbSpread is 0
\* or the PWI value of an imbalance strictly above the running floor and at
\* most maxImbal.
C30_SpreadsZeroWhileFloorAtCap ==
    /\ FloorStartsAtCap =>
          \A k \in 1 .. Len(calls) :
              (\A j \in 1 .. k - 1 : calls[j].imbal = maxImbal) =>
                  /\ calls[k].imbSpread = QZero
                  /\ calls[k].pwiArgs = <<>>
                  /\ QLe(maxImbal, calls[k].minImb)
    /\ SpreadIsZeroOrPWI

\* C30 witness: a returned ladder that started at or above the cap, whose
\* first level got imbSpread 0 and lowered the floor below the cap, and whose
\* second level then got a PWI spread.
C30_Witness ==
    /\ Returned /\ FloorStartsAtCap /\ Len(calls) = 2
    /\ calls[1].imbSpread = QZero /\ QLt(calls[1].imbal, maxImbal)
    /\ calls[2].pwiArgs # <<>> /\ calls[2].imbSpread # QZero

\* Nothing but the named operation is running.
AnalysisIdle == LadderIdle /\ RebalanceIdle /\ PricingIdle /\ SamplerIdle
RequestAlone == AnalysisIdle /\ EndpointsIdle /\ BfsIdle /\ ItemIdle /\ MtmIdle /\ RetryIdle /\ WindowIdle
EndpointAlone == AnalysisIdle /\ RequestIdle /\ BfsIdle /\ ItemIdle /\ MtmIdle /\ RetryIdle /\ WindowIdle
BfsAlone == AnalysisIdle /\ RequestIdle /\ EndpointsIdle /\ ItemIdle /\ MtmIdle /\ RetryIdle /\ WindowIdle
ItemAlone == AnalysisIdle /\ RequestIdle /\ EndpointsIdle /\ BfsIdle /\ MtmIdle /\ RetryIdle /\ WindowIdle
MtmAlone == AnalysisIdle /\ RequestIdle /\ EndpointsIdle /\ BfsIdle /\ ItemIdle /\ RetryIdle /\ WindowIdle
RetryAlone == AnalysisIdle /\ RequestIdle /\ EndpointsIdle /\ BfsIdle /\ ItemIdle /\ MtmIdle /\ WindowIdle
WindowAlone == AnalysisIdle /\ RequestIdle /\ EndpointsIdle /\ BfsIdle /\ ItemIdle /\ MtmIdle /\ RetryIdle

\* ------------------------------------------------- ReserveClient.request

\* Endpoints whose url contains "0x/quote".
QuoteEndpoints == {"0x/quote"}

\* _request up to the send: an "integration" parameter is popped from the
\* params dict (the caller's object), after the 0x api key has been read
\* from the auth data for a 0x quote.
PrepareError(a) ==
    IF /\ a.params.given
       /\ <<"integration", "0x">> \in a.params.dict
       /\ a.endpoint \in QuoteEndpoints
       /\ ~a.has0xKey
    THEN "KeyError" ELSE ""

PoppedParams(q) ==
    IF q.given
    THEN [q EXCEPT !.dict = {kv \in q.dict : kv[1] # "integration"}]
    ELSE q

\* The reason of a reply with a status other than 200, part by part.
StatusReason(a, r) ==
    <<" bad http status ", r.status_code, " reply:", r.text,
      " for request to ", a.endpoint, ", params:", a.params,
      ", data: ", a.data, ", json: ", a.json>>

\* The reason of a RequestException.
TransportReason(a, name) ==
    <<"Cannot make request to host: ", a.endpoint, " ", name>>

\* A request that lets a bad status raise, as raise_for_status would.
request_RaisesOnStatus(a, r, decodeIsRequestException) ==
    IF r.kind = "RequestException"
    THEN [raised |-> "", value |-> [failed |-> TransportReason(a, r.exc)]]
    ELSE IF r.status_code = 200 /\ r.json # "NOT_JSON"
    THEN [raised |-> "", value |-> [success |-> r.json]]
    ELSE [raised |-> "HTTPError", value |-> <<>>]

\* request after _request has ended with r, a response or a raised
\* RequestException. Response.json() of a body that is not JSON raises
\* JSONDecodeError, a RequestException in the requests releases that define
\* it there and a plain ValueError in the older ones.
request(a, r, decodeIsRequestException) ==
    IF r.kind = "RequestException"
    THEN [raised |-> "", value |-> [failed |-> TransportReason(a, r.exc)]]
    ELSE IF r.status_code = 200
    THEN IF r.json # "NOT_JSON"
         THEN [raised |-> "", value |-> [success |-> r.json]]
         ELSE IF decodeIsRequestException
         THEN [raised |-> "",
               value |-> [failed |-> TransportReason(a, "JSONDecodeError")]]
         ELSE [raised |-> "ValueError", value |-> <<>>]
    ELSE [raised |-> "", value |-> [failed |-> StatusReason(a, r)]]

\* What _request can end with: a response of the host or a RequestException
\* of the transport.
Responses ==
    { [kind |-> "response", status_code |-> c, text |-> t, json |-> j,
       exc |-> ""] :
        c \in {200, 400, 503}, t \in {"", "Bad request"},
        j \in {"NOT_JSON", "{data: example}"} }
TransportErrors ==
    { [kind |-> "RequestException", status_code |-> 0, text |-> "",
       json |-> "NOT_JSON", exc |-> e] : e \in {"ConnectionError", "Timeout"} }

\* request, lines 200-208: _request prepares and signs the request.
RequestSend ==
    /\ qpc = "call"
    /\ IF PrepareError(request_args) # ""
       THEN /\ qpc' = "raised"
            /\ qerr' = PrepareError(request_args)
            /\ UNCHANGED request_args
       ELSE /\ qpc' = "sent"
            /\ request_args' =
                  [request_args EXCEPT !.params = PoppedParams(@)]
            /\ UNCHANGED qerr
    /\ UNCHANGED <<resp, request_result>>
    /\ UNCHANGED requestFrame

\* request, lines 209-221: the send ends with a response or an exception,
\* which request turns into its result.
RequestReply ==
    /\ qpc = "sent"
    /\ \E r \in Responses \cup TransportErrors, b \in BOOLEAN :
          LET o == request(request_args, r, b)
          IN  /\ resp' = r
              /\ IF o.raised # ""
                 THEN /\ qpc' = "raised" /\ qerr' = o.raised
                      /\ UNCHANGED request_result
                 ELSE /\ qpc' = "returned" /\ request_result' = o.value
                      /\ UNCHANGED qerr
    /\ UNCHANGED request_args
    /\ UNCHANGED requestFrame

ParamDicts ==
    { NoParams,
      [given |-> TRUE, dict |-> {<<"symbol", "KNC">>}],
      [given |-> TRUE, dict |-> {<<"symbol", "KNC">>, <<"integration", "0x">>}],
      [given |-> TRUE,
       dict |-> {<<"symbol", "KNC">>, <<"integration", "paraswap">>}] }

InitRequest ==
    /\ request_args \in
          [endpoint : {"v3/balances", "0x/quote"}, params : ParamDicts,
           data : {"None", "payload"}, json : {"None", "{id: 1}"},
           has0xKey : BOOLEAN]
    /\ qpc = "call"
    /\ resp = [kind |-> "", status_code |-> 0, text |-> "", json |-> "NOT_JSON",
               exc |-> ""]
    /\ request_result = <<>>
    /\ qerr = ""
    /\ RequestAlone

NextRequest == RequestSend \/ RequestReply

SpecRequest == InitRequest /\ [][NextRequest]_vars

EpKey(base, sub_base, path) ==
    IF base # <<>>
    THEN IF sub_base # <<>>
         THEN base \o <<"_">> \o sub_base \o <<"_">> \o path
         ELSE base \o <<"_">> \o path
    ELSE path

\* The EndpointItem built from group i and its entry j, lines 76-96: the
\* keys an entry may leave out take their defaults.
EpItem(i, j) ==
    [path        |-> j.path,
     base        |-> i.base,
     sub_base    |-> IF "sub_base" \in j.absent THEN <<>> ELSE j.sub_base,
     url         |-> i.url,
     methods     |-> j.methods,
     secured     |-> IF "secured" \in j.absent THEN FALSE ELSE j.secured,
     options     |-> IF "options" \in j.absent THEN {} ELSE j.options,
     params      |-> IF "params" \in j.absent THEN {} ELSE j.params,
     description |-> j.description]

ep_key(i, j) == EpKey(i.base, EpItem(i, j).sub_base, j.path)

\* endpoints[ep_key] = item
DictSet(d, k, v) == [x \in DOMAIN d \cup {k} |-> IF x = k THEN v ELSE d[x]]

\* One turn of the inner loop, lines 78-103.
LoadEndpoint ==
    /\ epc = "loop"
    /\ ep_group <= Len(endpoints_data)
    /\ ep_entry <= Len(endpoints_data[ep_group].endpoints)
    /\ LET i == endpoints_data[ep_group]
           j == i.endpoints[ep_entry]
       IN  endpoints' = DictSet(endpoints, ep_key(i, j), EpItem(i, j))
    /\ ep_entry' = ep_entry + 1
    /\ UNCHANGED <<endpoints_data, epc, ep_group>>
    /\ UNCHANGED endpointFrame

\* The inner loop is over: the outer loop takes the next group, line 75.
NextGroup ==
    /\ epc = "loop"
    /\ ep_group <= Len(endpoints_data)
    /\ ep_entry > Len(endpoints_data[ep_group].endpoints)
    /\ ep_group' = ep_group + 1
    /\ ep_entry' = 1
    /\ UNCHANGED <<endpoints_data, endpoints, epc>>
    /\ UNCHANGED endpointFrame

\* return endpoints, line 104.
LoadReturn ==
    /\ epc = "loop"
    /\ ep_group > Len(endpoints_data)
    /\ epc' = "returned"
    /\ UNCHANGED <<endpoints_data, endpoints, ep_group, ep_entry>>
    /\ UNCHANGED endpointFrame

\* Entries of a group: with every key, with the optional keys left out, and
\* two that differ from the first only in path or methods.
EndpointEntries ==
    { [path |-> <<"rates">>, sub_base |-> <<"sub">>, methods |-> <<"GET">>,
       secured |-> TRUE, options |-> {<<"opt1", "val1">>},
       params |-> {<<"param1", "val2">>}, description |-> "rates of a pair",
       absent |-> {}],
      [path |-> <<"rates">>, sub_base |-> <<"sub">>, methods |-> <<"POST">>,
       secured |-> FALSE, options |-> {}, params |-> {},
       description |-> "set rates", absent |-> {}],
      [path |-> <<"sub", "_", "rates">>, sub_base |-> <<>>,
       methods |-> <<"GET">>, secured |-> FALSE, options |-> {},
       params |-> {}, description |-> "sub rates",
       absent |-> {"sub_base", "secured", "options", "params"}],
      [path |-> <<"balances">>, sub_base |-> <<>>,
       methods |-> <<"GET", "POST">>, secured |-> FALSE, options |-> {},
       params |-> {}, description |-> "balances",
       absent |-> {"sub_base", "secured", "options", "params"}] }

EndpointGroups ==
    { [base |-> b, url |-> "http://example.com", endpoints |-> e] :
        b \in {<<>>, <<"v3">>}, e \in SeqsUpTo(EndpointEntries, 2) }

InitEndpoints ==
    /\ endpoints_data \in SeqsUpTo(EndpointGroups, 2)
    /\ endpoints = <<>>
    /\ epc = "loop"
    /\ ep_group = 1
    /\ ep_entry = 1
    /\ EndpointAlone

NextEndpoints == LoadEndpoint \/ NextGroup \/ LoadReturn

SpecEndpoints == InitEndpoints /\ [][NextEndpoints]_vars

\* C24: once load_endpoints has returned, every entry of every group of the
\* JSON is found in the mapping under its key base_sub_base_path (base_path
\* without a sub_base, path with an empty base), and the item under that key
\* has that entry's path, base, sub_base, url, methods, secured flag,
\* options, params and description.
C24_EveryEntryRetrievable ==
    epc = "returned" =>
        \A g \in 1 .. Len(endpoints_data) :
            \A e \in 1 .. Len(endpoints_data[g].endpoints) :
                LET i == endpoints_data[g]
                    j == i.endpoints[e]
                    k == IF i.base = <<>> THEN j.path
                         ELSE IF "sub_base" \in j.absent \/ j.sub_base = <<>>
                         THEN i.base \o <<"_">> \o j.path
                         ELSE i.base \o <<"_">> \o j.sub_base \o <<"_">> \o j.path
                IN  /\ k \in DOMAIN endpoints
                    /\ endpoints[k].path = j.path
                    /\ endpoints[k].base = i.base
                    /\ endpoints[k].url = i.url
                    /\ endpoints[k].methods = j.methods
                    /\ endpoints[k].description = j.description
                    /\ endpoints[k].sub_base =
                          (IF "sub_base" \in j.absent THEN <<>> ELSE j.sub_base)
                    /\ endpoints[k].secured =
                          (IF "secured" \in j.absent THEN FALSE ELSE j.secured)
                    /\ endpoints[k].options =
                          (IF "options" \in j.absent THEN {} ELSE j.options)
                    /\ endpoints[k].params =
                          (IF "params" \in j.absent THEN {} ELSE j.params)

\* ---------------------------------------------- get_all_related_addresses

\* deque.append on a deque of maximum length maxlen: a full deque drops its
\* leftmost item; a deque of maximum length 0 stays empty.
DequeAppend(q, x, maxlen) ==
    IF maxlen = 0 THEN <<>>
    ELSE IF Len(q) >= maxlen THEN Append(Tail(q), x)
    ELSE Append(q, x)

\* deque(xs, maxlen) and deque.extend(xs): the items are appended in turn.
RECURSIVE DequeExtend(_, _, _)
DequeExtend(q, xs, maxlen) ==
    IF xs = <<>> THEN q
    ELSE DequeExtend(DequeAppend(q, Head(xs), maxlen), Tail(xs), maxlen)

\* The orders in which a set can be iterated.
Orders(S) ==
    {f \in [1 .. Cardinality(S) -> S] : \A i, j \in DOMAIN f : i # j => f[i] # f[j]}

\* random.sample(list(related), max_step_addresses) when related is larger.
StepSamples(related, max_step) ==
    IF Cardinality(related) > max_step
    THEN {r \in SUBSET related : Cardinality(r) = max_step}
    ELSE {related}

\* Lines 360-361: the separator is popped, a level is over.
PopSeparator ==
    /\ bpc = "loop" /\ queue # <<>> /\ levels > 0
    /\ Head(queue) = "separator"
    /\ levels' = levels - 1
    /\ IF levels - 1 = 0
       THEN /\ queue' = Tail(queue)
            /\ bpc' = "returned"
       ELSE /\ queue' = DequeAppend(Tail(queue), "separator",
                                    bfs_args.max_lookup_addresses)
            /\ UNCHANGED bpc
    /\ UNCHANGED <<bfs_args, visited_addresses, looked_up>>
    /\ UNCHANGED bfsFrame

\* Lines 359-376: an address is popped and looked up; those of its related
\* addresses that are new are marked visited and put on the queue.
Expand ==
    /\ bpc = "loop" /\ queue # <<>> /\ levels > 0
    /\ Head(queue) # "separator"
    /\ LET current_address == Head(queue)
       IN  /\ looked_up' = Append(looked_up, current_address)
           /\ \E related \in StepSamples(bfs_args.related[current_address],
                                        bfs_args.max_step_addresses) :
                 LET dif_addrs == related \ visited_addresses
                 IN  /\ visited_addresses' = visited_addresses \cup dif_addrs
                     /\ \E order \in Orders(dif_addrs) :
                           queue' = DequeExtend(Tail(queue), order,
                                                bfs_args.max_lookup_addresses)
    /\ UNCHANGED <<bfs_args, levels, bpc>>
    /\ UNCHANGED bfsFrame

\* Line 358: the queue is empty or no level is left.
SearchOver ==
    /\ bpc = "loop"
    /\ queue = <<>> \/ levels <= 0
    /\ bpc' = "returned"
    /\ UNCHANGED <<bfs_args, visited_addresses, queue, levels, looked_up>>
    /\ UNCHANGED bfsFrame

Addresses == {"a", "b", "c", "d"}

\* What get_related_addresses answers for each address: a chain, and a
\* start with two neighbours that share a third.
RelatedGraphs ==
    { [x \in Addresses |->
          CASE x = "a" -> {"b"} [] x = "b" -> {"a", "c"} [] x = "c" -> {"b", "d"}
            [] OTHER -> {"c"}],
      [x \in Addresses |->
          CASE x = "a" -> {"b", "c"} [] x = "b" -> {"a", "d"}
            [] x = "c" -> {"a", "d"} [] OTHER -> {"b", "c"}] }

InitBfs ==
    /\ bfs_args \in
          [starting_addresses : {<<"a">>, <<"a", "b">>},
           max_step_addresses : {1, 2},
           max_lookup_addresses : {0, 2, 4},
           levels : {0, 1, 2},
           related : RelatedGraphs]
    /\ visited_addresses =
          {bfs_args.starting_addresses[i] :
              i \in DOMAIN bfs_args.starting_addresses}
    /\ queue = DequeAppend(DequeExtend(<<>>, bfs_args.starting_addresses,
                                       bfs_args.max_lookup_addresses),
                           "separator", bfs_args.max_lookup_addresses)
    /\ levels = bfs_args.levels
    /\ looked_up = <<>>
    /\ bpc = "loop"
    /\ BfsAlone

NextBfs == PopSeparator \/ Expand \/ SearchOver

SpecBfs == InitBfs /\ [][NextBfs]_vars

\* The addresses at distance at most n from the starting addresses.
RECURSIVE Within(_)
Within(n) ==
    IF n = 0
    THEN {bfs_args.starting_addresses[i] :
            i \in DOMAIN bfs_args.starting_addresses}
    ELSE Within(n - 1) \cup UNION {bfs_args.related[x] : x \in Within(n - 1)}

\* C25: every address passed to get_related_addresses is at a distance from
\* the starting addresses smaller than levels, whatever max_lookup_addresses
\* and max_step_addresses are; and when levels is at least 1 every starting
\* address has been looked up by the time the search returns.
C25_AtMostLevelsExpanded ==
    /\ \A k \in DOMAIN looked_up :
          /\ bfs_args.levels >= 1
          /\ looked_up[k] \in Within(bfs_args.levels - 1)
    /\ (bpc = "returned" /\ bfs_args.levels >= 1) =>
          \A i \in DOMAIN bfs_args.starting_addresses :
              \E k \in DOMAIN looked_up :
                  looked_up[k] = bfs_args.starting_addresses[i]

\* ------------------------------------------------------------ RequestItem

\* RequestItem._standard_headers
StandardHeaders ==
    [x \in {"User-Agent", "Accept-Encoding", "Accept", "Connection"} |->
        CASE x = "User-Agent" -> "python-requests/2.31.0"
          [] x = "Accept-Encoding" -> "gzip, deflate, br"
          [] x = "Accept" -> "*/*"
          [] OTHER -> "keep-alive"]

\* self.custom_headers or self._standard_headers, copied by the setter: a
\* dict that is None or empty gives the standard headers.
BaseHeaders(it) ==
    IF it.custom_headers.given /\ DOMAIN it.custom_headers.dict # {}
    THEN it.custom_headers.dict
    ELSE StandardHeaders

\* self.signedList, the default of line 45.
signedList == <<"(request-target)", "nonce", "digest">>

\* headers.get(field, "")
HeaderGet(h, field) == IF field \in DOMAIN h THEN <<h[field]>> ELSE <<>>

\* _get_string_to_sign: the request target, then each signed field with the
\* value the headers hold under that very name.
StringToSign(h) ==
    [f \in DOMAIN signedList |->
        IF signedList[f] = "(request-target)"
        THEN <<"(request-target)", <<"get /v3/rates">>>>
        ELSE <<signedList[f], HeaderGet(h, signedList[f])>>]

\* _add_sign_specific_headers and _add_digest
SignSpecificHeaders(it, now) ==
    LET withNonce  == IF "nonce" \in DOMAIN it.headers THEN it.headers
                      ELSE DictSet(it.headers, "nonce", now)
    IN  IF it.body # "None" /\ "Digest" \notin DOMAIN withNonce
        THEN DictSet(withNonce, "Digest", <<"SHA-256=", it.body>>)
        ELSE withNonce

\* The Signature header: the key id and the HMAC of the string to sign,
\* kept as the pair of its key and message.
SignatureOf(it, h) ==
    [keyId |-> it.key_id, algorithm |-> "hmac-sha512", headers |-> signedList,
     signature |-> <<it.secret, StringToSign(h)>>]

\* A reset that only clears the flag.
RequestItem_reset_FlagOnly(it) == [it EXCEPT !.signed = FALSE]

RequestItem_reset(it) ==
    [it EXCEPT !.headers = BaseHeaders(it), !.signed = FALSE]

\* sign(), lines 109-126: the item after the call and whether it raised.
RequestItem_sign(it, now) ==
    IF it.signed THEN [raised |-> FALSE, item |-> it]
    ELSE IF it.secret = "" \/ it.key_id = "" THEN [raised |-> TRUE, item |-> it]
    ELSE LET h == SignSpecificHeaders(it, now)
         IN  [raised |-> FALSE,
              item |-> [it EXCEPT !.headers = DictSet(h, "Signature",
                                                      SignatureOf(it, h)),
                                  !.signed = TRUE]]

MaxClock == 3
MaxCalls == 3

Sign ==
    /\ Len(item_log) < MaxCalls
    /\ LET r == RequestItem_sign(item, clock)
       IN  /\ item' = r.item
           /\ item_log' = Append(item_log,
                                 IF r.raised THEN "sign raised" ELSE "sign")
    /\ UNCHANGED clock
    /\ UNCHANGED itemFrame

Reset ==
    /\ Len(item_log) < MaxCalls
    /\ item' = RequestItem_reset(item)
    /\ item_log' = Append(item_log, "reset")
    /\ UNCHANGED clock
    /\ UNCHANGED itemFrame

\* Time passes between the calls.
Tick ==
    /\ clock < MaxClock
    /\ clock' = clock + 1
    /\ UNCHANGED <<item, item_log>>
    /\ UNCHANGED itemFrame

\* The headers given at construction: none, an empty dict, a dict of
\* ordinary headers, and one that brings its own nonce.
CustomHeaders ==
    { NoHeaders,
      [given |-> TRUE, dict |-> <<>>],
      [given |-> TRUE, dict |-> [x \in {"Accept"} |-> "application/json"]],
      [given |-> TRUE,
       dict |-> [x \in {"Accept", "nonce"} |->
                    IF x = "nonce" THEN 1000 ELSE "application/json"]] }

InitItem ==
    /\ \E c \in CustomHeaders, b \in {"None", "{id: 1}"},
          k \in {"", "key-id"}, sec \in {"", "secret"} :
          item = [custom_headers |-> c,
                  headers |-> BaseHeaders([custom_headers |-> c]),
                  signed |-> FALSE, body |-> b, key_id |-> k, secret |-> sec]
    /\ clock = 1
    /\ item_log = <<>>
    /\ ItemAlone

NextItem == Sign \/ Reset \/ Tick

SpecItem == InitItem /\ [][NextItem]_vars

\* The call a step makes on the item, "" for a step that makes none.
ItemCall == IF Len(item_log') = Len(item_log) + 1
            THEN item_log'[Len(item_log')] ELSE ""
AfterReset == item_log # <<>> /\ item_log[Len(item_log)] = "reset"
CanSign == item.secret # "" /\ item.key_id # ""

\* What the claim says of every call but the nonce of a sign() after a
\* reset(): sign() on a signed item changes nothing; reset() gives the
\* headers of construction, unsigned, with no nonce, Digest or Signature
\* that signing added; a sign() after reset() signs the headers anew;
\* sign() without a secret or key id raises and changes nothing.
SignResetContract ==
    /\ (ItemCall = "sign" /\ item.signed) => item' = item
    /\ ItemCall = "reset" =>
          /\ item'.headers = BaseHeaders(item)
          /\ ~item'.signed
          /\ \A x \in {"nonce", "Digest", "Signature"} :
                x \in DOMAIN item'.headers =>
                    /\ item.custom_headers.given
                    /\ x \in DOMAIN item.custom_headers.dict
          /\ [item' EXCEPT !.headers = item.headers, !.signed = item.signed]
                = item
    /\ (ItemCall = "sign" /\ AfterReset) =>
          /\ CanSign
          /\ item'.signed
          /\ {"nonce", "Signature"} \subseteq DOMAIN item'.headers
          /\ item'.headers["Signature"].signature =
                <<item.secret, StringToSign(item'.headers)>>
          /\ StringToSign(item'.headers)[2] =
                <<"nonce", <<item'.headers["nonce"]>>>>
    /\ (ItemCall \in {"sign", "sign raised"} /\ ~item.signed /\ ~CanSign) =>
          /\ ItemCall = "sign raised"
          /\ item' = item
          /\ ~item'.signed
    /\ ItemCall = "sign raised" => ~CanSign /\ ~item.signed

\* C27 as stated: the contract above, and a sign() after reset() computes a
\* new nonce, the reading of the clock at that call.
C27_SignOncePerReset ==
    [][/\ SignResetContract
       /\ (ItemCall = "sign" /\ AfterReset) =>
              item'.headers["nonce"] = clock]_vars

\* C27 amended: the contract above, and a sign() after reset() computes a
\* new nonce, the reading of the clock at that call, unless the headers
\* given at construction carry a nonce, which it then keeps.
C27_SignOncePerResetKeepsOwnNonce ==
    [][/\ SignResetContract
       /\ (ItemCall = "sign" /\ AfterReset) =>
              item'.headers["nonce"] =
                  (IF "nonce" \in DOMAIN BaseHeaders(item)
                   THEN BaseHeaders(item)["nonce"] ELSE clock)]_vars

\* C27 witness: an item with a body signed at time 1, reset, and signed
\* again at time 2.
C27_Witness ==
    /\ item_log = <<"sign", "reset", "sign">>
    /\ item.signed /\ clock = 2
    /\ item.body # "None"
    /\ item.headers["nonce"] = 2
    /\ "Digest" \in DOMAIN item.headers

\* ------------------------------------------ ContextSignedRequest.async_mtm

\* The host of the auth context and the host base of the mark-to-market
\* endpoint.
ConfiguredHost == "https://reserve.example"
MtmHostBase == "https://mtm.example/mark-to-market"

MaxCallers == 2
MaxRequests == 2
Callers == 1 .. MaxCallers

NotCalled == [pc |-> "idle", temp_host |-> "", pending |-> 0,
              responses |-> <<>>]

\* Lines 254-284 with at least one base-quote pair: the host is saved and
\* replaced, the requests are built, and the coroutine awaits the gathered
\* fetch tasks.
MtmCall(c) ==
    /\ mtm_calls[c].pc = "idle"
    /\ \E n \in 1 .. MaxRequests :
          mtm_calls' = [mtm_calls EXCEPT ![c] =
                           [pc |-> "awaiting", temp_host |-> host,
                            pending |-> n, responses |-> <<>>]]
    /\ host' = MtmHostBase
    /\ UNCHANGED mtmFrame

\* Lines 254-312 with no pair (base and quote equal or empty): gather of no
\* task is done at once, so the call runs to its end without yielding.
MtmCallEmpty(c) ==
    /\ mtm_calls[c].pc = "idle"
    /\ mtm_calls' = [mtm_calls EXCEPT ![c] =
                        [pc |-> "done", temp_host |-> host, pending |-> 0,
                         responses |-> <<>>]]
    /\ host' = host
    /\ UNCHANGED mtmFrame

\* fetch_url, lines 143-158: one of the call's fetches ends with a reply or
\* with an exception fetch_url catches, and returns a dict.
FetchReturns(c) ==
    /\ mtm_calls[c].pc = "awaiting" /\ mtm_calls[c].pending > 0
    /\ \E r \in {"success", "failed"} :
          mtm_calls' = [mtm_calls EXCEPT ![c].pending = @ - 1,
                                         ![c].responses = Append(@, r)]
    /\ UNCHANGED host
    /\ UNCHANGED mtmFrame

\* fetch_url raises what it does not catch (a connection error, say): gather
\* hands the exception to the awaiting async_mtm, which ends there.
FetchRaises(c) ==
    /\ mtm_calls[c].pc = "awaiting" /\ mtm_calls[c].pending > 0
    /\ mtm_calls' = [mtm_calls EXCEPT ![c].pc = "raised"]
    /\ UNCHANGED host
    /\ UNCHANGED mtmFrame

\* Lines 285-312: all fetches have returned; the host is put back and the
\* rates are read from the responses.
MtmResume(c) ==
    /\ mtm_calls[c].pc = "awaiting" /\ mtm_calls[c].pending = 0
    /\ host' = mtm_calls[c].temp_host
    /\ mtm_calls' = [mtm_calls EXCEPT ![c].pc = "done"]
    /\ UNCHANGED mtmFrame

InitMtm ==
    /\ host = ConfiguredHost
    /\ mtm_calls = [c \in Callers |-> NotCalled]
    /\ MtmAlone

NextMtm ==
    \E c \in Callers :
        \/ MtmCall(c) \/ MtmCallEmpty(c) \/ FetchReturns(c) \/ FetchRaises(c)
        \/ MtmResume(c)

SpecMtm == InitMtm /\ [][NextMtm]_vars

\* C26: whenever no async_mtm call is in progress on the object, host is
\* the configured host: also after two calls that overlapped and after a
\* call that a fetch's exception ended.
C26_HostRestored ==
    (\A c \in Callers : mtm_calls[c].pc # "awaiting") => host = ConfiguredHost

\* ------------------------------------------------------ _requestGET_retry

\* What a requestGET call can end with: an exception, a failed dict, and
\* success dicts whose body is empty, not a dict, a dict without data, or a
\* dict whose data is an empty list, a list, or a number.
Replies ==
    { [kind |-> "raised", data |-> <<>>],
      [kind |-> "failed", data |-> <<>>],
      [kind |-> "success empty", data |-> <<>>],
      [kind |-> "success list", data |-> <<>>],
      [kind |-> "success no data", data |-> <<>>],
      [kind |-> "success data list", data |-> <<>>],
      [kind |-> "success data list", data |-> <<"a">>],
      [kind |-> "success data list", data |-> <<"a", "b">>],
      [kind |-> "success data number", data |-> <<>>] }

\* Lines 738-749 for one reply: how the body of the loop ends and what the
\* caller's list holds then.  results += r["data"] raises TypeError for
\* data that cannot be iterated, inside the try block.
HandleReply(reply, list) ==
    CASE reply.kind = "raised" -> [ends |-> "except", results |-> list]
      [] reply.kind \in {"failed", "success empty"} ->
            [ends |-> "return", results |-> list]
      [] reply.kind \in {"success list", "success no data"} ->
            [ends |-> "break", results |-> list]
      [] reply.kind = "success data list" ->
            [ends |-> "break", results |-> list \o reply.data]
      [] OTHER -> [ends |-> "except", results |-> list]

\* One turn of the while loop, lines 736-749.
Attempt ==
    /\ gpc = "loop"
    /\ attempt_count < retries
    /\ attempt_count' = attempt_count + 1
    /\ \E reply \in Replies :
          LET h == HandleReply(reply, results)
          IN  /\ attempts' = Append(attempts, reply)
              /\ results' = h.results
              /\ gpc' = IF h.ends = "except" /\ attempt_count + 1 < retries
                        THEN "loop" ELSE "returned"
    /\ UNCHANGED <<retries, results_before>>
    /\ UNCHANGED retryFrame

\* The while condition fails before any call: retries is not positive.
NoAttempt ==
    /\ gpc = "loop"
    /\ attempt_count >= retries
    /\ gpc' = "returned"
    /\ UNCHANGED <<retries, results, results_before, attempt_count, attempts>>
    /\ UNCHANGED retryFrame

DefaultRetries == 3

InitRetry ==
    /\ retries \in {0, 1, DefaultRetries}
    /\ results \in {<<>>, <<"old">>}
    /\ results_before = results
    /\ attempt_count = 0
    /\ attempts = <<>>
    /\ gpc = "loop"
    /\ RetryAlone

NextRetry == Attempt \/ NoAttempt

SpecRetry == InitRetry /\ [][NextRetry]_vars

\* C28: requestGET is called at most retries times, and again only after a
\* call that raised; once _requestGET_retry has returned, results has grown
\* by the data of the last reply if that reply is a success with non-empty
\* data, and is as it was for a failure and when every call raised.
C28_RetryOnlyAfterException ==
    /\ Len(attempts) <= retries
    /\ \A k \in 1 .. Len(attempts) - 1 : attempts[k].kind = "raised"
    /\ gpc = "loop" => results = results_before
    /\ gpc = "returned" =>
          IF attempts # <<>>
             /\ attempts[Len(attempts)].kind = "success data list"
          THEN results = results_before \o attempts[Len(attempts)].data
          ELSE results = results_before

\* ------------------------------------- get_activities, get_0x_quote_logs

\* The step of get_activities and the offset of the end of its window, and
\* the step of get_0x_quote_logs, in milliseconds.
ActivitiesStep == 86400000
ActivitiesLast == 86399999
QuoteStep == 3600000

TimeSplitters == {"get_activities", "get_0x_quote_logs"}

StepOf(fn) == IF fn = "get_activities" THEN ActivitiesStep ELSE QuoteStep

\* A window that ends a whole step after its start.
WindowEnd_WholeStep(fn, start, to_time) == Min2(start + StepOf(fn), to_time)

\* "toTime" of the request that starts at start, lines 762 and 783.
WindowEnd(fn, start, to_time) ==
    IF fn = "get_activities"
    THEN Min2(start + ActivitiesLast, to_time)
    ELSE Min2(start + QuoteStep - 1, to_time)

\* One turn of the while loop, lines 758-765 and 779-787: the params are
\* built, from_time moves on, and _requestGET_retry adds what it got for
\* the window, if anything, to the list.
RequestWindow ==
    /\ wpc = "loop"
    /\ from_time < window_args.to_time
    /\ LET params == [fromTime |-> from_time,
                      toTime |-> WindowEnd(window_args.fn, from_time,
                                           window_args.to_time)]
       IN  /\ window_requests' = Append(window_requests, params)
           /\ \E got \in {<<>>, <<params.fromTime>>} :
                 list_activities' = list_activities \o got
    /\ from_time' = from_time + StepOf(window_args.fn)
    /\ UNCHANGED <<window_args, wpc>>
    /\ UNCHANGED windowFrame

\* The while condition fails: the list is returned.
WindowsReturn ==
    /\ wpc = "loop"
    /\ from_time >= window_args.to_time
    /\ wpc' = "returned"
    /\ UNCHANGED <<window_args, from_time, window_requests, list_activities>>
    /\ UNCHANGED windowFrame

\* Lengths of the queried period: none, a millisecond, and a millisecond
\* less or more than one, two and three steps.
Periods(fn) ==
    {0 - 1, 0, 1, 2}
      \cup {k * StepOf(fn) + d : k \in 1 .. 3, d \in {0 - 1, 0, 1}}

InitWindow ==
    /\ \E fn \in TimeSplitters, start \in {0, 1, 1000} :
          \E len \in Periods(fn) :
              window_args = [fn |-> fn, from_time |-> start,
                             to_time |-> start + len]
    /\ from_time = window_args.from_time
    /\ window_requests = <<>>
    /\ list_activities = <<>>
    /\ wpc = "loop"
    /\ WindowAlone

NextWindow == RequestWindow \/ WindowsReturn

SpecWindow == InitWindow /\ [][NextWindow]_vars

\* Window k of the requests made so far, and the windows a time lies in.
WindowsWith(t) ==
    {k \in DOMAIN window_requests :
        window_requests[k].fromTime <= t /\ t <= window_requests[k].toTime}

\* The milliseconds at and next to the edges of the period and of every
\* window.
EdgeTimes ==
    LET edges == {window_args.from_time, window_args.to_time}
                   \cup {window_requests[k].fromTime : k \in DOMAIN window_requests}
                   \cup {window_requests[k].toTime : k \in DOMAIN window_requests}
    IN  UNION {{e - 1, e, e + 1} : e \in edges}

\* C29: the windows requested are consecutive and disjoint (each starts one
\* millisecond after the one before it ends), each has
\* fromTime <= toTime <= to_time and is shorter than one step; once the
\* function has returned, the first starts at from_time, the last reaches
\* to_time - 1, and every millisecond of [from_time, to_time) tried lies in
\* exactly one window; for from_time >= to_time no request is made and the
\* list returned is empty.
C29_WindowsPartitionPeriod ==
    /\ \A k \in DOMAIN window_requests :
          /\ window_args.from_time <= window_requests[k].fromTime
          /\ window_requests[k].fromTime <= window_requests[k].toTime
          /\ window_requests[k].toTime <= window_args.to_time
          /\ window_requests[k].toTime - window_requests[k].fromTime
                < StepOf(window_args.fn)
          /\ k > 1 => window_requests[k].fromTime
                        = window_requests[k - 1].toTime + 1
    /\ (wpc = "returned" /\ window_args.from_time < window_args.to_time) =>
          /\ window_requests # <<>>
          /\ window_requests[1].fromTime = window_args.from_time
          /\ window_requests[Len(window_requests)].toTime
                >= window_args.to_time - 1
          /\ \A t \in EdgeTimes :
                (window_args.from_time <= t /\ t < window_args.to_time) =>
                    Cardinality(WindowsWith(t)) = 1
    /\ window_args.from_time >= window_args.to_time =>
          window_requests = <<>> /\ list_activities = <<>>

\* C29 witness: get_activities has returned for a period of two steps and a
\* millisecond, with three windows, the last one cut at to_time.
C29_Witness ==
    /\ wpc = "returned"
    /\ window_args.fn = "get_activities"
    /\ window_args.to_time - window_args.from_time = 2 * ActivitiesStep + 1
    /\ Len(window_requests) = 3
    /\ window_requests[3].fromTime = window_args.to_time - 1
    /\ window_requests[3].toTime = window_args.to_time

====
